---- MODULE Spec2Model ----
(***************************************************************************)
(* HotOffThePRSS: the feed-polling and per-webhook deduplication engine of *)
(* scheduler.py, with the on-demand "check now" handler of main_web.py.    *)
(*                                                                         *)
(* Two processes share three files of the script directory:                *)
(*   "sched"  the FeedScheduler.run loop (scheduler.py)                    *)
(*   "web"    a request handler of the Flask application (main_web.py)     *)
(*                                                                         *)
(* Article ids are strings in the program; here they are the integers      *)
(* 1..MaxKey, ordered as Python orders the strings (sorted() on str).      *)
(* None, the empty string and a missing dict key are all written None.     *)
(***************************************************************************)
EXTENDS Integers, Sequences, FiniteSets, TLC

\* ------------------------------------------------------------------------
\* Bounds of the model
\* ------------------------------------------------------------------------
\* Article ids are 1..MaxKey.
MaxKey == 3
\* The literal 10000 of scheduler.py:80 and :98, scaled down so that the
\* pruning branch is exercised.
PruneLimit == 2
\* Calls of filter_and_update_sent_articles_for_webhook per caller in
\* SpecReserve.
MaxCalls == 2
\* Force checks requested from the dashboard in Spec.
MaxForce == 1
\* Force checks in SpecForce.
MaxSeqForce == 3
\* Minutes that pass in Spec.
MaxTicks == 1

None == 0
Keys == 1..MaxKey
Procs == {"sched", "web"}
Webhooks == {"A", "B"}

VARIABLES
    sent_articles,          \* SENT_ARTICLES_FILE: [kind, list, map]
    flock,                  \* holder of the advisory lock on it, or "none"
    rpc,                    \* per caller: position in filter_and_update_...
    webhook_url,            \* per caller: argument
    article_ids_to_check,   \* per caller: argument
    all_webhooks_memory,    \* per caller: the dictionary loaded under the lock
    new_article_ids,        \* per caller: the value returned
    calls,                  \* history: completed calls of each direct caller
    before,                 \* history: the webhook's persisted ids at the call
    store0,                 \* history: SENT_ARTICLES_FILE when the run began
    applied,                \* history: the direct calls of a function made
                            \*          so far, arguments and result
    served,                 \* the entries the servers of the feeds have
    users,                  \* USER_FILE: whether it exists and the list in it
    g_user,                 \* g.user of the last user-administration request
    now,                    \* the wall clock, seconds
    dst_shift,              \* the host: seconds its zone is ahead by DST
    config,                 \* CONFIG_FILE: the sequence FEEDS
    feed_state_file,        \* FEED_STATE_FILE: feed id -> record
    pc,                     \* per process: position in run / force_check_feed
    feed_state,             \* per process: the dictionary it loaded
    tick_now,               \* scheduler: `now` of the running tick
    wake,                   \* scheduler: end of time.sleep(self.interval)
    fidx,                   \* scheduler: index in FEEDS of the loop
    feed_config,            \* per process: the feed being checked
    status_code,            \* per process: check_single_feed local
    last_post_status,       \* per process: check_single_feed local
    article_id_map,         \* per process: the entries kept, one per id
    is_initial_check,       \* per process: check_single_feed local
    widx,                   \* per process: index in webhooks of the loop
    posted,                 \* history: <<webhook, entry, status>> of the
                            \*          posts of this check, in order
    seeded,                 \* history: the ids this check passed to a seeding call
    dispatched,             \* history: posts per webhook and id, up to 2
    failed,                 \* history: <<url, id>> of the posts whose kept
                            \* status is not "Success"
    nforce,                 \* history: force checks started
    memory_at_check,        \* history: the ids persisted when the force
                            \*          check in progress began
    yielded                 \* history: a finished check had recent articles

rvars == <<sent_articles, flock, rpc, webhook_url, article_ids_to_check,
           all_webhooks_memory, new_article_ids>>
dvars == <<calls, before, store0, applied, served, users, g_user>>
files == <<config, feed_state_file>>
cvars == <<feed_config, status_code, last_post_status, article_id_map,
           is_initial_check, widx, posted, seeded>>
svars == <<now, dst_shift, files, pc, feed_state, tick_now, wake, fidx, cvars,
           dispatched, failed, nforce, memory_at_check, yielded>>
vars == <<rvars, dvars, svars>>

\* ------------------------------------------------------------------------
\* SENT_ARTICLES_FILE
\* ------------------------------------------------------------------------
\* kind "absent":  the file does not exist
\*      "empty":   zero bytes (just opened with 'w')
\*      "list":    a YAML list, the format initialize_files writes ([]) and
\*                 the legacy global format
\*      "map":     {webhook url: sorted list of ids}
\*      "corrupt": bytes yaml.safe_load rejects
\* A mapping from webhook url to list of ids is a function on Webhooks; a
\* url that is no key of the mapping has the value NoEntry.
NoEntry == {None}
EmptyMap == [w \in Webhooks |-> NoEntry]
\* all_webhooks_memory[webhook_url]: no default for a url that is no key
GetNoDefault(mem, url) == mem[url]
\* all_webhooks_memory.get(webhook_url, []) as a set
Get(mem, url) == IF mem[url] = NoEntry THEN {} ELSE mem[url]
FileAbsent == [kind |-> "absent", list |-> {}, map |-> EmptyMap]
FileEmpty == [kind |-> "empty", list |-> {}, map |-> EmptyMap]
FileCorrupt == [kind |-> "corrupt", list |-> {}, map |-> EmptyMap]
FileList(l) == [kind |-> "list", list |-> l, map |-> EmptyMap]
FileMap(m) == [kind |-> "map", list |-> {}, map |-> m]

\* USER_FILE before setup: os.path.exists(USER_FILE) is false.
NoUserFile == [exists |-> FALSE, list |-> <<>>]
\* g.user when nobody is logged in.
NoUser == [id |-> 0, username |-> "", password |-> 0, role |-> ""]

\* sorted(list(s))[-10000:] : the PruneLimit greatest ids of s.
SortedTailNoPrune(s) == s
SortedTail(s) == {k \in s : Cardinality({j \in s : j > k}) < PruneLimit}

\* The sets of ids a persisted list can hold.
SmallSets == {s \in SUBSET Keys : Cardinality(s) <= PruneLimit}

\* yaml.safe_load(f) or {} followed by .get(webhook_url, []): "raise" when
\* the load or the .get raises (caught at scheduler.py:107).
LoadRaises(file) ==
    \/ file.kind = "corrupt"
    \/ file.kind = "list" /\ file.list # {}
LoadedMemory(file) == IF file.kind = "map" THEN file.map ELSE EmptyMap

\* The ids persisted for webhook w, as a later reader would load them.
SentSet(file, w) ==
    IF LoadRaises(file) THEN {} ELSE Get(LoadedMemory(file), w)

\* ------------------------------------------------------------------------
\* filter_and_update_sent_articles_for_webhook, one step per file operation
\* ------------------------------------------------------------------------
\* open(SENT_ARTICLES_FILE, 'r+') raises FileNotFoundError.
filter_open_fnf(p) ==
    /\ rpc[p] = "open"
    /\ sent_articles.kind = "absent"
    /\ rpc' = [rpc EXCEPT ![p] = "fnf"]
    /\ UNCHANGED <<sent_articles, flock, webhook_url, article_ids_to_check,
                   all_webhooks_memory, new_article_ids>>

\* open(SENT_ARTICLES_FILE, 'r+') succeeds, fcntl.flock(LOCK_EX),
\* yaml.safe_load, the set difference.  The file is never deleted, so the
\* open is taken at the moment the lock is granted.  When the load raises
\* or nothing is new, the file is closed without a write.
GenuinelyNew(mem, url, ids) == ids \ Get(mem, url)
filter_lock_load(p) ==
    /\ rpc[p] = "open"
    /\ sent_articles.kind # "absent"
    /\ flock = "none"
    /\ IF LoadRaises(sent_articles)
          \/ GenuinelyNew(LoadedMemory(sent_articles), webhook_url[p],
                          article_ids_to_check[p]) = {}
       THEN /\ rpc' = [rpc EXCEPT ![p] = "done"]
            /\ new_article_ids' = [new_article_ids EXCEPT ![p] = {}]
            /\ UNCHANGED <<flock, all_webhooks_memory>>
       ELSE /\ rpc' = [rpc EXCEPT ![p] = "locked"]
            /\ flock' = p
            /\ all_webhooks_memory' =
                 [all_webhooks_memory EXCEPT ![p] = LoadedMemory(sent_articles)]
            /\ UNCHANGED new_article_ids
    /\ UNCHANGED <<sent_articles, webhook_url, article_ids_to_check>>

\* union, prune, f.seek(0), f.truncate(), yaml.dump, LOCK_UN
UpdatedMemory(mem, url, ids) ==
    [mem EXCEPT ![url] = SortedTail(Get(mem, url) \cup GenuinelyNew(mem, url, ids))]
filter_dump_unlock(p) ==
    /\ rpc[p] = "locked"
    /\ flock = p
    /\ sent_articles' = FileMap(UpdatedMemory(all_webhooks_memory[p],
                                  webhook_url[p], article_ids_to_check[p]))
    /\ new_article_ids' = [new_article_ids EXCEPT ![p] =
           GenuinelyNew(all_webhooks_memory[p], webhook_url[p],
                        article_ids_to_check[p])]
    /\ flock' = "none"
    /\ rpc' = [rpc EXCEPT ![p] = "done"]
    /\ all_webhooks_memory' = [all_webhooks_memory EXCEPT ![p] = EmptyMap]
    /\ UNCHANGED <<webhook_url, article_ids_to_check>>

\* except FileNotFoundError: open(SENT_ARTICLES_FILE, 'w') creates the file
\* or truncates whatever another caller has written meanwhile; the lock is
\* not held yet.
filter_fnf_create(p) ==
    /\ rpc[p] = "fnf"
    /\ sent_articles' = FileEmpty
    /\ rpc' = [rpc EXCEPT ![p] = "fnf_flock"]
    /\ UNCHANGED <<flock, webhook_url, article_ids_to_check,
                   all_webhooks_memory, new_article_ids>>

\* flock(LOCK_EX), yaml.dump at offset 0 of the handle opened with 'w',
\* LOCK_UN.  On an empty file the dump is the whole content.  When another
\* caller has written since the truncation, the dump overlays the head of
\* that content: the result is the dump alone when it is at least as long,
\* and otherwise the dump followed by foreign bytes, modelled as "corrupt".
OverlayDump(file, dumped) ==
    IF file.kind \in {"empty", "absent"} THEN {dumped}
    ELSE {dumped, FileCorrupt}
FnfMemory(url, ids) == [EmptyMap EXCEPT ![url] = SortedTail(ids)]
filter_fnf_dump(p) ==
    /\ rpc[p] = "fnf_flock"
    /\ flock = "none"
    /\ sent_articles' \in OverlayDump(sent_articles,
           FileMap(FnfMemory(webhook_url[p], article_ids_to_check[p])))
    /\ new_article_ids' =
           [new_article_ids EXCEPT ![p] = article_ids_to_check[p]]
    /\ rpc' = [rpc EXCEPT ![p] = "done"]
    /\ UNCHANGED <<flock, webhook_url, article_ids_to_check,
                   all_webhooks_memory>>

filter_step(p) ==
    \/ filter_open_fnf(p)
    \/ filter_lock_load(p)
    \/ filter_dump_unlock(p)
    \/ filter_fnf_create(p)
    \/ filter_fnf_dump(p)

\* ------------------------------------------------------------------------
\* Feeds, entries and the persisted feed state
\* ------------------------------------------------------------------------
\* timedelta(hours=24), in seconds
TWENTY_FOUR_HOURS == 86400
\* FeedScheduler.__init__(interval=60)
Interval == 60
\* The clock reading at the start of a run.
Epoch == 100000

FeedIds == {"f1", "f2"}
\* config.json as add_feed writes it: one active feed that posts to two
\* webhooks and is polled every minute.
InitialFeeds ==
    << [id |-> "f1", webhooks |-> <<"A", "B">>, update_interval |-> 60,
        active |-> TRUE] >>

\* A feedparser entry: id, link, published_parsed, updated_parsed (None when
\* the key is missing).  Times are seconds on the scale of `now`.
Entry(i, l, pub, upd) ==
    [id |-> i, link |-> l, published_parsed |-> pub, updated_parsed |-> upd]
\* What the feeds can serve: the oldest entry has the greatest id, one entry
\* has a link and no id, one has an updated time and no published time.
Universe ==
    { Entry(3, None, Epoch - TWENTY_FOUR_HOURS, None),
      Entry(None, 1, Epoch - 3600, Epoch),
      Entry(2, 2, None, Epoch) }

\* feedparser.parse: the status (None when the result has none: the request
\* itself failed) and the entries, any of those the servers have.
Responses ==
    {[status |-> None, entries |-> {}], [status |-> 500, entries |-> {}],
     [status |-> 200, entries |-> {}]}
        \cup {[status |-> 200, entries |-> es] : es \in SUBSET served \ {{}}}

\* feed_data['status'], without the default
RawStatus(r) == r.status
\* feed_data.get('status', 500)
StatusCode(r) == IF r.status = None THEN 500 ELSE r.status

\* The updated time taken first.
UpdatedTimeFirst(e) ==
    IF e.updated_parsed # None THEN e.updated_parsed ELSE e.published_parsed
\* entry.get('published_parsed') or entry.get('updated_parsed')
PublishedTime(e) ==
    IF e.published_parsed # None THEN e.published_parsed ELSE e.updated_parsed
\* The link taken first.
LinkFirst(e) == IF e.link # None THEN e.link ELSE e.id
\* entry.get('id') or entry.get('link')
ArticleId(e) == IF e.id # None THEN e.id ELSE e.link

\* datetime.fromtimestamp(time.mktime(t)).replace(tzinfo=timezone.utc):
\* mktime reads the UTC struct_time as local standard time (tm_isdst = 0)
\* and fromtimestamp gives back local wall time, so the result is t moved
\* ahead by the DST offset in force on the host, labelled UTC.
DstShifts == {0, 3600}
published_dt(t, shift) == t + shift
\* A struct_time that time.mktime rejects (OverflowError or ValueError, a
\* year the platform's time_t cannot hold): the `except Exception` of
\* scheduler.py:161 drops the entry.
Unconvertible == 10 * Epoch
Converts(t) == t # Unconvertible

\* scheduler.py:148-165: the entries published within the last 24 hours.
RecentArticles(entries, clock, shift) ==
    {e \in entries :
        /\ PublishedTime(e) # None
        /\ Converts(PublishedTime(e))
        /\ published_dt(PublishedTime(e), shift) >= clock - TWENTY_FOUR_HOURS}

\* scheduler.py:167-173: recent_articles is sorted newest first and the dict
\* comprehension keeps, for each id, the last entry of that order.
ArticleIdMap(recent) ==
    {e \in recent :
        /\ ArticleId(e) # None
        /\ \A o \in recent :
               ArticleId(o) = ArticleId(e) =>
                   PublishedTime(e) <= PublishedTime(o)}
AllRecentIds(map) == {ArticleId(e) : e \in map}

\* list.sort(key=published or updated): every order of the entries that is
\* ascending in the key (the list comes from iterating a set, so entries of
\* equal key come in any order).
IsAscending(seq) ==
    \A i, j \in 1..Len(seq) :
        i < j => PublishedTime(seq[i]) <= PublishedTime(seq[j])
IsDescending(seq) ==
    \A i, j \in 1..Len(seq) :
        i < j => PublishedTime(seq[i]) >= PublishedTime(seq[j])
Orderings(es) ==
    {seq \in [1..Cardinality(es) -> es] : \A e \in es : \E i \in DOMAIN seq : seq[i] = e}
SortedToPostReversed(es) == {seq \in Orderings(es) : IsDescending(seq)}
SortedToPost(es) == {seq \in Orderings(es) : IsAscending(seq)}

\* send_to_webhook: the status string for a response code (0: the request
\* raised requests.RequestException).
ConnectionError == 0
\* The classification without the branch for 429.
ClassifyWithout429(code) ==
    IF code = ConnectionError THEN "Failed to Connect"
    ELSE IF code \in {200, 204} THEN "Success"
    ELSE "Error: " \o ToString(code)
send_to_webhook(code) ==
    IF code = ConnectionError THEN "Failed to Connect"
    ELSE IF code \in {200, 204} THEN "Success"
    ELSE IF code = 429 THEN "Rate Limited"
    ELSE "Error: " \o ToString(code)
WebhookResponses == {204, 429}

\* One value of feed_state.json per feed; seen = FALSE: no key for the feed.
NoState ==
    [seen |-> FALSE, status_code |-> None, last_checked |-> None,
     last_post |-> "", last_post_timestamp |-> None]

\* The update without the last_post part.
UpdateFeedStateNoPost(state, fid, code, post, clock) ==
    [state EXCEPT ![fid] =
        [seen |-> TRUE, status_code |-> code, last_checked |-> clock,
         last_post |-> @.last_post,
         last_post_timestamp |-> @.last_post_timestamp]]
\* scheduler.py:273-283 and main_web.py:1687-1697
UpdateFeedState(state, fid, code, post, clock) ==
    [state EXCEPT ![fid] =
        [seen |-> TRUE,
         status_code |-> code,
         last_checked |-> clock,
         last_post |-> IF post # "" THEN post ELSE @.last_post,
         last_post_timestamp |->
             IF post # "" THEN clock ELSE @.last_post_timestamp]]

NoFeed == [id |-> "", webhooks |-> <<>>, update_interval |-> 0,
           active |-> FALSE]

SInit ==
    /\ now = Epoch
    /\ dst_shift \in DstShifts
    /\ config = InitialFeeds
    /\ feed_state_file = [f \in FeedIds |-> NoState]
    /\ pc = [p \in Procs |-> "idle"]
    /\ feed_state = [p \in Procs |-> [f \in FeedIds |-> NoState]]
    /\ tick_now = Epoch
    /\ wake = Epoch
    /\ fidx = 1
    /\ feed_config = [p \in Procs |-> NoFeed]
    /\ status_code = [p \in Procs |-> None]
    /\ last_post_status = [p \in Procs |-> ""]
    /\ article_id_map = [p \in Procs |-> {}]
    /\ is_initial_check = [p \in Procs |-> FALSE]
    /\ widx = [p \in Procs |-> 1]
    /\ posted = [p \in Procs |-> <<>>]
    /\ seeded = [p \in Procs |-> {}]
    /\ dispatched = [w \in Webhooks |-> [k \in Keys |-> 0]]
    /\ failed = {}
    /\ nforce = 0
    /\ memory_at_check = EmptyMap
    /\ yielded = FALSE

\* ------------------------------------------------------------------------
\* check_single_feed(feed_config, feed_state), run by process p
\* ------------------------------------------------------------------------
\* The last webhook that has a url, whatever lies before it.
LastWebhook(webhooks, i) ==
    IF \E j \in i..Len(webhooks) : webhooks[j] # ""
    THEN CHOOSE j \in i..Len(webhooks) :
             /\ webhooks[j] # ""
             /\ \A k \in (j + 1)..Len(webhooks) : webhooks[k] = ""
    ELSE Len(webhooks) + 1
\* `if not webhook_url: continue` (196) and `if webhook_url:` (186): the
\* index of the first webhook at or after i that has a url.
NextWebhook(webhooks, i) ==
    IF \E j \in i..Len(webhooks) : webhooks[j] # ""
    THEN CHOOSE j \in i..Len(webhooks) :
             /\ webhooks[j] # ""
             /\ \A k \in i..(j - 1) : webhooks[k] = ""
    ELSE Len(webhooks) + 1

\* scheduler.py:184-200 and 226: go on with the webhooks from index i.  The
\* next webhook with a url gets a call of
\* filter_and_update_sent_articles_for_webhook(url, all_recent_ids); past
\* the last one the function returns (status_code, last_post_status).
Proceed(p, i, initial, map, post) ==
    LET webhooks == feed_config[p].webhooks
        j == NextWebhook(webhooks, i)
    IN  IF j > Len(webhooks)
        THEN /\ last_post_status' = [last_post_status EXCEPT ![p] =
                    IF initial THEN "Initial check (seeded)" ELSE post]
             /\ pc' = [pc EXCEPT ![p] = "returned"]
             /\ rpc' = [rpc EXCEPT ![p] = "idle"]
             /\ UNCHANGED <<webhook_url, article_ids_to_check, widx, seeded>>
        ELSE /\ last_post_status' = [last_post_status EXCEPT ![p] = post]
             /\ pc' = [pc EXCEPT ![p] = "filter"]
             /\ rpc' = [rpc EXCEPT ![p] = "open"]
             /\ webhook_url' = [webhook_url EXCEPT ![p] = webhooks[j]]
             /\ article_ids_to_check' =
                    [article_ids_to_check EXCEPT ![p] = AllRecentIds(map)]
             /\ widx' = [widx EXCEPT ![p] = j]
             /\ seeded' = [seeded EXCEPT ![p] =
                    IF initial THEN @ \cup {webhooks[j]} ELSE @]

\* A feed that is never taken to be without webhooks.
HasWebhooksAlways(feed) == FALSE
\* scheduler.py:178-180: `if not webhooks`
NoWebhooks(feed) == feed.webhooks = <<>>

\* scheduler.py:134-180: fetch, recency filter, id map, initial or not, and
\* on to the first webhook.
check_fetch(p) ==
    /\ pc[p] = "check"
    /\ \E r \in Responses :
         LET recent == RecentArticles(r.entries, now, dst_shift)
             map == ArticleIdMap(recent)
             initial == ~feed_state[p][feed_config[p].id].seen
         IN  /\ status_code' = [status_code EXCEPT ![p] = StatusCode(r)]
             /\ IF r.entries = {} \/ recent = {}
                THEN /\ last_post_status' =
                            [last_post_status EXCEPT ![p] = ""]
                     /\ pc' = [pc EXCEPT ![p] = "returned"]
                     /\ UNCHANGED <<rpc, webhook_url, article_ids_to_check,
                                    widx, seeded, article_id_map,
                                    is_initial_check>>
                ELSE /\ article_id_map' = [article_id_map EXCEPT ![p] = map]
                     /\ is_initial_check' =
                            [is_initial_check EXCEPT ![p] = initial]
                     /\ IF NoWebhooks(feed_config[p])
                        THEN /\ last_post_status' = [last_post_status EXCEPT
                                    ![p] = "No webhooks configured"]
                             /\ pc' = [pc EXCEPT ![p] = "returned"]
                             /\ UNCHANGED <<rpc, webhook_url,
                                            article_ids_to_check, widx,
                                            seeded>>
                        ELSE Proceed(p, 1, initial, map, "")
    /\ UNCHANGED <<sent_articles, flock, all_webhooks_memory,
                   new_article_ids, dvars, now, dst_shift, files, feed_state,
                   tick_now, wake, fidx, feed_config, posted, dispatched, failed,
                   nforce, memory_at_check, yielded>>

\* The steps of the call.
check_filter(p) ==
    /\ pc[p] = "filter"
    /\ filter_step(p)
    /\ UNCHANGED <<dvars, svars>>

\* scheduler.py:188: a seeding call has returned; its result is dropped.
\* scheduler.py:200-224: a call of the incremental path has returned; the
\* entries of the new ids are sorted oldest first and each is posted once
\* with send_to_webhook, the status of the last post being kept.  Then on
\* to the next webhook.
Bump(n) == IF n < 2 THEN n + 1 ELSE n
\* An aggregate of the statuses of the posts: the first one that is not
\* "Success" when there is one.
FirstFailure(statuses) ==
    IF \E i \in DOMAIN statuses : statuses[i] # "Success"
    THEN statuses[CHOOSE i \in DOMAIN statuses :
                      /\ statuses[i] # "Success"
                      /\ \A j \in 1..(i - 1) : statuses[j] = "Success"]
    ELSE statuses[Len(statuses)]
\* scheduler.py:209-224: last_post_status is assigned at every post of the
\* loop, so the value left is the status of the last post.
KeptStatus(statuses) == statuses[Len(statuses)]
Occurrences(seq, k) ==
    Cardinality({i \in DOMAIN seq : ArticleId(seq[i]) = k})
check_filtered(p) ==
    /\ pc[p] = "filter"
    /\ rpc[p] = "done"
    /\ LET to_post == {e \in article_id_map[p] :
                          ArticleId(e) \in new_article_ids[p]}
           url == webhook_url[p]
       IN  IF is_initial_check[p] \/ to_post = {}
           THEN /\ Proceed(p, widx[p] + 1, is_initial_check[p],
                           article_id_map[p], last_post_status[p])
                /\ UNCHANGED <<posted, dispatched, failed>>
           ELSE \E seq \in SortedToPost(to_post) :
                \E codes \in [DOMAIN seq -> WebhookResponses] :
                  /\ posted' = [posted EXCEPT ![p] =
                         @ \o [i \in DOMAIN seq |->
                                  <<url, seq[i], send_to_webhook(codes[i])>>]]
                  /\ dispatched' = [dispatched EXCEPT ![url] =
                         [k \in Keys |-> IF Occurrences(seq, k) > 0
                                         THEN Bump(@[k]) ELSE @[k]]]
                  /\ Proceed(p, widx[p] + 1, FALSE, article_id_map[p],
                         KeptStatus([i \in DOMAIN seq |->
                                        send_to_webhook(codes[i])]))
                  /\ failed' =
                       IF send_to_webhook(codes[Len(seq)]) = "Success"
                       THEN failed
                       ELSE failed \cup {<<url, ArticleId(seq[Len(seq)])>>}
    /\ new_article_ids' = [new_article_ids EXCEPT ![p] = {}]
    /\ UNCHANGED <<sent_articles, flock, all_webhooks_memory, dvars, now,
                   dst_shift, files, feed_state, tick_now, wake, fidx,
                   feed_config, status_code, article_id_map,
                   is_initial_check, nforce, memory_at_check, yielded>>

check_single_feed(p) ==
    \/ check_fetch(p)
    \/ check_filter(p)
    \/ check_filtered(p)

\* ------------------------------------------------------------------------
\* FeedScheduler.run
\* ------------------------------------------------------------------------
\* scheduler.py:253-263
ShouldCheck(feed, state, clock) ==
    \/ state[feed.id].last_checked = None
    \/ clock - state[feed.id].last_checked >= feed.update_interval

\* scheduler.py:242-265: the feeds the loop passes over: no id, paused, or
\* checked less than update_interval ago.
Skipped(feed, state, clock) ==
    \/ feed.id = ""
    \/ ~feed.active
    \/ ~ShouldCheck(feed, state, clock)
NextDue(feeds, i, state, clock) ==
    IF \E j \in i..Len(feeds) : ~Skipped(feeds[j], state, clock)
    THEN CHOOSE j \in i..Len(feeds) :
             /\ ~Skipped(feeds[j], state, clock)
             /\ \A k \in i..(j - 1) : Skipped(feeds[k], state, clock)
    ELSE Len(feeds) + 1

\* scheduler.py:242-270 and 291: the loop over FEEDS goes on from index i:
\* the next feed that is due is checked; past the last feed the scheduler
\* sleeps for self.interval.
LoopFrom(feeds, i, state, clock) ==
    LET j == NextDue(feeds, i, state, clock)
    IN  IF j > Len(feeds)
        THEN /\ wake' = now + Interval
             /\ pc' = [pc EXCEPT !["sched"] = "idle"]
             /\ fidx' = 1
             /\ feed_state' = [feed_state EXCEPT !["sched"] =
                                   [f \in FeedIds |-> NoState]]
             /\ feed_config' = [feed_config EXCEPT !["sched"] = NoFeed]
        ELSE /\ feed_config' = [feed_config EXCEPT !["sched"] = feeds[j]]
             /\ pc' = [pc EXCEPT !["sched"] = "check"]
             /\ fidx' = j
             /\ feed_state' = [feed_state EXCEPT !["sched"] = state]
             /\ UNCHANGED wake

\* scheduler.py:237-266: a tick begins once time.sleep(self.interval) is
\* over: load_config, load_feed_state, now, and the loop up to the first
\* feed that is due.
run_tick ==
    /\ pc["sched"] = "idle"
    /\ now >= wake
    /\ tick_now' = now
    /\ LoopFrom(config, 1, feed_state_file, now)
    /\ UNCHANGED <<rvars, dvars, now, dst_shift, files, status_code,
                   last_post_status, article_id_map, is_initial_check, widx,
                   posted, seeded, dispatched, failed, nforce, memory_at_check, yielded>>

\* scheduler.py:270-289: the check has returned; the entry of the feed is
\* updated in the dictionary loaded at the start of the tick, which is
\* written out whole; the loop goes on.
ClearLocals(p) ==
    /\ status_code' = [status_code EXCEPT ![p] = None]
    /\ last_post_status' = [last_post_status EXCEPT ![p] = ""]
    /\ article_id_map' = [article_id_map EXCEPT ![p] = {}]
    /\ is_initial_check' = [is_initial_check EXCEPT ![p] = FALSE]
    /\ widx' = [widx EXCEPT ![p] = 1]
    /\ posted' = [posted EXCEPT ![p] = <<>>]
    /\ seeded' = [seeded EXCEPT ![p] = {}]
    /\ webhook_url' = [webhook_url EXCEPT ![p] = "A"]
    /\ article_ids_to_check' = [article_ids_to_check EXCEPT ![p] = {}]
\* The save done on the file as it is at the time of the write instead of
\* on the dictionary of the start of the tick.
run_save_reload ==
    /\ pc["sched"] = "returned"
    /\ LET updated == UpdateFeedState(feed_state_file,
                          feed_config["sched"].id, status_code["sched"],
                          last_post_status["sched"], tick_now)
       IN  /\ feed_state_file' = updated
           /\ LoopFrom(config, fidx + 1, updated, tick_now)
    /\ ClearLocals("sched")
    /\ yielded' = (yielded \/ article_id_map["sched"] # {})
    /\ UNCHANGED <<sent_articles, flock, rpc, all_webhooks_memory,
                   new_article_ids, dvars, now, dst_shift, config, tick_now,
                   dispatched, failed, nforce, memory_at_check>>
\* The save batched: the file is written once, after the last feed of the
\* tick.
run_save_batched ==
    /\ pc["sched"] = "returned"
    /\ LET updated == UpdateFeedState(feed_state["sched"],
                          feed_config["sched"].id, status_code["sched"],
                          last_post_status["sched"], tick_now)
       IN  /\ feed_state_file' =
                  IF NextDue(config, fidx + 1, updated, tick_now) > Len(config)
                  THEN updated ELSE feed_state_file
           /\ LoopFrom(config, fidx + 1, updated, tick_now)
    /\ ClearLocals("sched")
    /\ yielded' = (yielded \/ article_id_map["sched"] # {})
    /\ UNCHANGED <<sent_articles, flock, rpc, all_webhooks_memory,
                   new_article_ids, dvars, now, dst_shift, config, tick_now,
                   dispatched, failed, nforce, memory_at_check>>
run_save ==
    /\ pc["sched"] = "returned"
    /\ LET updated == UpdateFeedState(feed_state["sched"],
                          feed_config["sched"].id, status_code["sched"],
                          last_post_status["sched"], tick_now)
       IN  /\ feed_state_file' = updated
           /\ LoopFrom(config, fidx + 1, updated, tick_now)
    /\ ClearLocals("sched")
    /\ yielded' = (yielded \/ article_id_map["sched"] # {})
    /\ UNCHANGED <<sent_articles, flock, rpc, all_webhooks_memory,
                   new_article_ids, dvars, now, dst_shift, config, tick_now,
                   dispatched, failed, nforce, memory_at_check>>

\* ------------------------------------------------------------------------
\* force_check_feed (main_web.py)
\* ------------------------------------------------------------------------
\* A force check that honours the pause: only a feed whose active flag is
\* true is checked.
force_check_active_only(limit) ==
    /\ pc["web"] = "idle"
    /\ nforce < limit
    /\ \E i \in 1..Len(config) :
          /\ config[i].active
          /\ feed_config' = [feed_config EXCEPT !["web"] = config[i]]
    /\ feed_state' = [feed_state EXCEPT !["web"] = feed_state_file]
    /\ nforce' = nforce + 1
    /\ memory_at_check' =
           [w \in Webhooks |-> SentSet(sent_articles, w)]
    /\ pc' = [pc EXCEPT !["web"] = "check"]
    /\ UNCHANGED <<rvars, dvars, now, dst_shift, files, tick_now, wake, fidx,
                   status_code, last_post_status, article_id_map,
                   is_initial_check, widx, posted, seeded, dispatched, failed,
                   yielded>>
\* main_web.py:1662-1682: load_config, find the feed, load_feed_state.
force_check_load(limit) ==
    /\ pc["web"] = "idle"
    /\ nforce < limit
    /\ \E i \in 1..Len(config) :
          feed_config' = [feed_config EXCEPT !["web"] = config[i]]
    /\ feed_state' = [feed_state EXCEPT !["web"] = feed_state_file]
    /\ nforce' = nforce + 1
    /\ memory_at_check' =
           [w \in Webhooks |-> SentSet(sent_articles, w)]
    /\ pc' = [pc EXCEPT !["web"] = "check"]
    /\ UNCHANGED <<rvars, dvars, now, dst_shift, files, tick_now, wake, fidx,
                   status_code, last_post_status, article_id_map,
                   is_initial_check, widx, posted, seeded, dispatched, failed,
                   yielded>>

\* main_web.py:1685-1699
force_check_save ==
    /\ pc["web"] = "returned"
    /\ LET updated == UpdateFeedState(feed_state["web"],
                          feed_config["web"].id, status_code["web"],
                          last_post_status["web"], now)
       IN  /\ feed_state' = [feed_state EXCEPT !["web"] =
                                 [f \in FeedIds |-> NoState]]
           /\ feed_state_file' = updated
    /\ pc' = [pc EXCEPT !["web"] = "idle"]
    /\ feed_config' = [feed_config EXCEPT !["web"] = NoFeed]
    /\ ClearLocals("web")
    /\ yielded' = (yielded \/ article_id_map["web"] # {})
    /\ memory_at_check' = EmptyMap
    /\ UNCHANGED <<sent_articles, flock, rpc, all_webhooks_memory,
                   new_article_ids, dvars, now, dst_shift, config, tick_now,
                   wake, fidx, dispatched, failed, nforce>>

\* Time passes.
Advance ==
    /\ now + Interval <= Epoch + MaxTicks * Interval
    /\ now' = now + Interval
    /\ UNCHANGED <<rvars, dvars, dst_shift, files, pc, feed_state, tick_now,
                   wake, fidx, cvars, dispatched, failed, nforce, memory_at_check, yielded>>

Init ==
    /\ sent_articles \in {FileAbsent, FileList({})}
    /\ store0 = sent_articles
    /\ flock = "none"
    /\ rpc = [p \in Procs |-> "idle"]
    /\ webhook_url = [p \in Procs |-> "A"]
    /\ article_ids_to_check = [p \in Procs |-> {}]
    /\ all_webhooks_memory = [p \in Procs |-> EmptyMap]
    /\ new_article_ids = [p \in Procs |-> {}]
    /\ calls = [p \in Procs |-> <<>>]
    /\ before = [p \in Procs |-> {}]
    /\ applied = <<>>
    /\ served = Universe
    /\ users = NoUserFile
    /\ g_user = NoUser
    /\ SInit

Next ==
    \/ \E p \in Procs : check_single_feed(p)
    \/ run_tick
    \/ run_save
    \/ force_check_load(MaxForce)
    \/ force_check_save
    \/ Advance

Spec == Init /\ [][Next]_vars

\* SpecFeeds: the scheduler and the dashboard with two feeds in config.json,
\* the second one added without a webhook.
TwoFeeds ==
    << [id |-> "f1", webhooks |-> <<"A">>, update_interval |-> 60,
        active |-> TRUE],
       [id |-> "f2", webhooks |-> <<>>, update_interval |-> 60,
        active |-> TRUE] >>
FeedsInit ==
    /\ sent_articles = FileList({})
    /\ store0 = sent_articles
    /\ flock = "none"
    /\ rpc = [p \in Procs |-> "idle"]
    /\ webhook_url = [p \in Procs |-> "A"]
    /\ article_ids_to_check = [p \in Procs |-> {}]
    /\ all_webhooks_memory = [p \in Procs |-> EmptyMap]
    /\ new_article_ids = [p \in Procs |-> {}]
    /\ calls = [p \in Procs |-> <<>>]
    /\ before = [p \in Procs |-> {}]
    /\ applied = <<>>
    /\ served = Universe
    /\ users = NoUserFile
    /\ g_user = NoUser
    /\ now = Epoch
    /\ dst_shift \in DstShifts
    /\ config = TwoFeeds
    /\ feed_state_file = [f \in FeedIds |-> NoState]
    /\ pc = [p \in Procs |-> "idle"]
    /\ feed_state = [p \in Procs |-> [f \in FeedIds |-> NoState]]
    /\ tick_now = Epoch
    /\ wake = Epoch
    /\ fidx = 1
    /\ feed_config = [p \in Procs |-> NoFeed]
    /\ status_code = [p \in Procs |-> None]
    /\ last_post_status = [p \in Procs |-> ""]
    /\ article_id_map = [p \in Procs |-> {}]
    /\ is_initial_check = [p \in Procs |-> FALSE]
    /\ widx = [p \in Procs |-> 1]
    /\ posted = [p \in Procs |-> <<>>]
    /\ seeded = [p \in Procs |-> {}]
    /\ dispatched = [w \in Webhooks |-> [k \in Keys |-> 0]]
    /\ failed = {}
    /\ nforce = 0
    /\ memory_at_check = EmptyMap
    /\ yielded = FALSE
SpecFeeds == FeedsInit /\ [][Next]_vars

\* SpecForce: the dashboard alone, one force check after the other (the
\* scheduler process is not running), on a dedup file that earlier feeds of
\* the two webhooks may have filled.
EarlierSets == {{}, {1}, SortedTail(Keys)}
UsedFiles ==
    {FileAbsent, FileList({})}
        \cup {FileMap([A |-> s, B |-> t]) : s, t \in EarlierSets}
ForceInit ==
    /\ sent_articles \in UsedFiles
    /\ store0 = sent_articles
    /\ flock = "none"
    /\ rpc = [p \in Procs |-> "idle"]
    /\ webhook_url = [p \in Procs |-> "A"]
    /\ article_ids_to_check = [p \in Procs |-> {}]
    /\ all_webhooks_memory = [p \in Procs |-> EmptyMap]
    /\ new_article_ids = [p \in Procs |-> {}]
    /\ calls = [p \in Procs |-> <<>>]
    /\ before = [p \in Procs |-> {}]
    /\ applied = <<>>
    /\ served = Universe
    /\ users = NoUserFile
    /\ g_user = NoUser
    /\ SInit
ForceNext ==
    \/ check_single_feed("web")
    \/ force_check_load(MaxSeqForce)
    \/ force_check_save
    \/ Advance
SpecForce == ForceInit /\ [][ForceNext]_vars

\* ------------------------------------------------------------------------
\* Direct callers of filter_and_update_sent_articles_for_webhook
\* ------------------------------------------------------------------------
\* Files the program itself produces: none yet (the scheduler alone never
\* creates it), "[]" from initialize_files, or a mapping written earlier.
ProgramFiles ==
    {FileAbsent, FileList({})}
        \cup {FileMap([EmptyMap EXCEPT !["A"] = s]) : s \in SmallSets}

RInit ==
    /\ sent_articles \in ProgramFiles
    /\ store0 = sent_articles
    /\ flock = "none"
    /\ rpc = [p \in Procs |-> "idle"]
    /\ webhook_url = [p \in Procs |-> "A"]
    /\ article_ids_to_check = [p \in Procs |-> {}]
    /\ all_webhooks_memory = [p \in Procs |-> EmptyMap]
    /\ new_article_ids = [p \in Procs |-> {}]
    /\ calls = [p \in Procs |-> <<>>]
    /\ before = [p \in Procs |-> {}]
    /\ applied = <<>>
    /\ served = Universe
    /\ users = NoUserFile
    /\ g_user = NoUser
    /\ SInit

RCall(p, limit) ==
    /\ rpc[p] = "idle"
    /\ Len(calls[p]) < limit
    /\ \E url \in Webhooks, ids \in SUBSET Keys :
         /\ webhook_url' = [webhook_url EXCEPT ![p] = url]
         /\ article_ids_to_check' = [article_ids_to_check EXCEPT ![p] = ids]
         /\ before' = [before EXCEPT ![p] = SentSet(sent_articles, url)]
    /\ rpc' = [rpc EXCEPT ![p] = "open"]
    /\ UNCHANGED <<sent_articles, flock, all_webhooks_memory,
                   new_article_ids, calls, store0, applied, served, users, g_user,
                   svars>>

RReturn(p) ==
    /\ rpc[p] = "done"
    /\ calls' = [calls EXCEPT ![p] = Append(@,
                   [url |-> webhook_url[p], ids |-> article_ids_to_check[p],
                    res |-> new_article_ids[p],
                    before |-> before[p],
                    after |-> SentSet(sent_articles, webhook_url[p])])]
    /\ rpc' = [rpc EXCEPT ![p] = "idle"]
    /\ webhook_url' = [webhook_url EXCEPT ![p] = "A"]
    /\ article_ids_to_check' = [article_ids_to_check EXCEPT ![p] = {}]
    /\ all_webhooks_memory' = [all_webhooks_memory EXCEPT ![p] = EmptyMap]
    /\ new_article_ids' = [new_article_ids EXCEPT ![p] = {}]
    /\ before' = [before EXCEPT ![p] = {}]
    /\ UNCHANGED <<sent_articles, flock, store0, applied, served, users, g_user,
                   svars>>

RStep(p) == filter_step(p) /\ UNCHANGED <<dvars, svars>>

\* SpecReserve: the two processes each make one call, concurrently.
RNext == \E p \in Procs : RCall(p, 1) \/ RStep(p) \/ RReturn(p)
SpecReserve == RInit /\ [][RNext]_vars

\* SpecSeq: one process makes up to MaxCalls calls, one after the other.
SeqNext == RCall("sched", MaxCalls) \/ RStep("sched") \/ RReturn("sched")
SpecSeq == RInit /\ [][SeqNext]_vars

\* ------------------------------------------------------------------------
\* Properties of filter_and_update_sent_articles_for_webhook
\* ------------------------------------------------------------------------
BothReturned == \A p \in Procs : Len(calls[p]) = 1
ReturnedBy(k) == {p \in Procs : k \in calls[p][1].res}

\* C2: two concurrent calls on the same webhook: every candidate id that was
\* not in the webhook's set beforehand is returned as new by exactly one of
\* the two calls.
NoPruning(c1, c2) ==
    Cardinality(SentSet(store0, c1.url) \cup c1.ids \cup c2.ids) <= PruneLimit
C2_AtomicReserve ==
    (/\ BothReturned
     /\ calls["sched"][1].url = calls["web"][1].url
     /\ NoPruning(calls["sched"][1], calls["web"][1])) =>
        \A k \in (calls["sched"][1].ids \cup calls["web"][1].ids)
                   \ SentSet(store0, calls["sched"][1].url) :
            Cardinality(ReturnedBy(k)) = 1

SeqCalls == calls["sched"]

\* C3: the same call made twice in a row returns the ids that were new the
\* first time and the empty set the second time.
C3_Idempotent ==
    (/\ Len(SeqCalls) = 2
     /\ SeqCalls[1].url = SeqCalls[2].url
     /\ SeqCalls[1].ids = SeqCalls[2].ids
     /\ Cardinality(SeqCalls[1].ids) <= PruneLimit) =>
        /\ SeqCalls[1].res = SeqCalls[1].ids \ SentSet(store0, SeqCalls[1].url)
        /\ SeqCalls[2].res = {}

\* C4: the list persisted for every webhook holds at most PruneLimit ids
\* (10,000 in the program).
C4_BoundedMemory ==
    sent_articles.kind = "map" =>
        \A w \in Webhooks : Cardinality(Get(sent_articles.map, w)) <= PruneLimit
\* The call that creates the file prunes, and so does a later call.
C4_Witness ==
    /\ store0.kind = "absent"
    /\ Len(SeqCalls) = 2
    /\ Cardinality(SeqCalls[1].ids) > PruneLimit
    /\ SeqCalls[2].url = SeqCalls[1].url
    /\ SeqCalls[2].res # {}
    /\ Cardinality(SeqCalls[2].before \cup SeqCalls[2].ids) > PruneLimit

\* C5: what a call evicts are the ids registered earliest: an id the call
\* has just returned as new is in the persisted set after the call, and no
\* id registered before the call is kept while a new one is dropped.
C5_EvictOldest ==
    \A i \in 1..Len(SeqCalls) :
      Cardinality(SeqCalls[i].ids) <= PruneLimit =>
        /\ SeqCalls[i].res \subseteq SeqCalls[i].after
        /\ \A y \in SeqCalls[i].res \ SeqCalls[i].after :
               SeqCalls[i].before \cap SeqCalls[i].after = {}

\* ------------------------------------------------------------------------
\* Properties of check_single_feed and its two callers
\* ------------------------------------------------------------------------
FeedWebhooks(p) ==
    {feed_config[p].webhooks[i] : i \in DOMAIN feed_config[p].webhooks} \ {""}
PostedTo(p, w) ==
    {ArticleId(posted[p][i][2]) : i \in {j \in DOMAIN posted[p] : posted[p][j][1] = w}}

\* C1: no article id is posted more than once to the same webhook url, over
\* every interleaving of scheduler checks and force checks.
C1_NoDuplicateDispatch ==
    \A w \in Webhooks, k \in Keys : dispatched[w][k] <= 1

C7_FirstYieldPostsNothing ==
    \A p \in Procs :
        (/\ pc[p] = "returned"
         /\ ~yielded
         /\ article_id_map[p] # {}
         /\ FeedWebhooks(p) # {}
         /\ \A q \in Procs \ {p} : article_id_map[q] = {}) =>
            posted[p] = <<>>

\* C8: once the feed id is recorded in the persisted feed state it stays
\* recorded, and every check of the feed that starts afterwards is given a
\* feed state that holds the id, so that it is incremental.
StartsCheck(p) == pc[p] # "check" /\ pc'[p] = "check"
C8_SeededIsTerminal ==
    [][/\ \A f \in FeedIds :
              feed_state_file[f].seen => feed_state_file'[f].seen
       /\ \A p \in Procs :
              (StartsCheck(p) /\ feed_state_file[feed_config'[p].id].seen) =>
                  feed_state'[p][feed_config'[p].id].seen]_vars

\* C9: a check of a seeded feed with webhooks A and B whose one recent
\* article X is in A's persisted set and not in B's posts X to B and not to
\* A, registers X for B and leaves A's set as it was.
C9_PerWebhook ==
    \A x \in Keys :
        (/\ pc["web"] = "returned"
         /\ ~is_initial_check["web"]
         /\ AllRecentIds(article_id_map["web"]) = {x}
         /\ x \in memory_at_check["A"]
         /\ x \notin memory_at_check["B"]) =>
            /\ PostedTo("web", "B") = {x}
            /\ PostedTo("web", "A") = {}
            /\ x \in SentSet(sent_articles, "B")
            /\ SentSet(sent_articles, "A") = memory_at_check["A"]

\* C10: within one check, the articles posted to a webhook are posted in
\* ascending order of published time (updated time when there is none).
C10_OldestFirst ==
    \A p \in Procs :
        \A i, j \in DOMAIN posted[p] :
            (i < j /\ posted[p][i][1] = posted[p][j][1]) =>
                PublishedTime(posted[p][i][2]) <= PublishedTime(posted[p][j][2])
\* Three articles of distinct times, one without published time, posted to
\* one webhook by one check.
C10_Witness ==
    /\ Len(posted["web"]) >= 3
    /\ \A i \in 1..3 : posted["web"][i][1] = "A"
    /\ PublishedTime(posted["web"][1][2]) < PublishedTime(posted["web"][2][2])
    /\ PublishedTime(posted["web"][2][2]) < PublishedTime(posted["web"][3][2])
    /\ posted["web"][3][2].published_parsed = None

\* ------------------------------------------------------------------------
\* The recency filter
\* ------------------------------------------------------------------------
\* The map of recent articles that a fetch at time `clock` gives when an
\* entry is recent exactly if its time is at or after clock - 24 h.
WithinDay(entries, clock) ==
    {e \in entries :
        /\ PublishedTime(e) # None
        /\ PublishedTime(e) >= clock - TWENTY_FOUR_HOURS}
LeavesFetch(p) == pc[p] = "check" /\ pc'[p] # "check"

\* C11: the articles a check goes on with are the fetched entries whose
\* published (else updated) time is at or after now - 24 h: an entry at
\* exactly now - 24 h is kept, an older one is not.
C11_RecencyBoundary ==
    [][\A p \in Procs :
          LeavesFetch(p) =>
              \E r \in Responses :
                  article_id_map'[p] = ArticleIdMap(WithinDay(r.entries, now))]_vars

\* ------------------------------------------------------------------------
\* More properties of filter_and_update_sent_articles_for_webhook
\* ------------------------------------------------------------------------
\* C12: a call with candidates C on a webhook whose persisted set is S
\* returns exactly C \ S, and afterwards every id of C is in the webhook's
\* persisted set (C being no larger than the cap).
C12_ReserveResult ==
    \A i \in 1..Len(SeqCalls) :
        Cardinality(SeqCalls[i].ids) <= PruneLimit =>
            /\ SeqCalls[i].res = SeqCalls[i].ids \ SeqCalls[i].before
            /\ SeqCalls[i].ids \subseteq SeqCalls[i].after

\* C13: the first call on a file that does not exist creates it as a
\* mapping, returns every candidate as new and persists the candidates
\* under the webhook; a call on a mapping without a key for the webhook
\* returns and persists what it would for a key with the empty list.
FirstReturned == Len(SeqCalls) = 1 /\ rpc["sched"] = "idle"
C13_AbsentStoreOrWebhook ==
    (FirstReturned /\ Cardinality(SeqCalls[1].ids) <= PruneLimit) =>
        /\ store0.kind = "absent" =>
              /\ SeqCalls[1].res = SeqCalls[1].ids
              /\ sent_articles.kind = "map"
              /\ sent_articles.map[SeqCalls[1].url] = SeqCalls[1].ids
        /\ (store0.kind = "map" /\ store0.map[SeqCalls[1].url] = NoEntry) =>
              /\ SeqCalls[1].res = SeqCalls[1].ids \ {}
              /\ SeqCalls[1].after = {} \cup SeqCalls[1].ids
\* A call for webhook B with two candidates on a mapping that holds ids of
\* webhook A only.
C13_Witness ==
    /\ FirstReturned
    /\ store0.kind = "map"
    /\ store0.map["A"] # {}
    /\ store0.map["B"] = NoEntry
    /\ SeqCalls[1].url = "B"
    /\ Cardinality(SeqCalls[1].res) = 2
    /\ sent_articles.map["B"] = SeqCalls[1].ids
    /\ sent_articles.map["A"] = store0.map["A"]
\* The call that creates the file.
C13_Created ==
    /\ FirstReturned
    /\ store0.kind = "absent"
    /\ SeqCalls[1].res # {}
    /\ sent_articles.kind = "map"

\* ------------------------------------------------------------------------
\* Failed posts
\* ------------------------------------------------------------------------
LastPosted(p) == posted[p][Len(posted[p])]

\* C14: an article whose post to a webhook ended "Rate Limited", "Error" or
\* "Failed to Connect" is registered for the webhook when the check returns
\* and is never posted to that webhook a second time.
C14_NoRetry ==
    /\ \A f \in failed : dispatched[f[1]][f[2]] <= 1
    /\ \A p \in Procs :
          (/\ pc[p] = "returned"
           /\ posted[p] # <<>>
           /\ last_post_status[p] \notin {"", "Success"}
           /\ \A q \in Procs \ {p} : pc[q] = "idle") =>
              ArticleId(LastPosted(p)[2])
                  \in SentSet(sent_articles, LastPosted(p)[1])

\* ------------------------------------------------------------------------
\* A dedup file that is no mapping
\* ------------------------------------------------------------------------
\* SpecLegacy: calls, one after the other, on a file that does not parse or
\* that holds a plain list of ids, as initialize_files writes it ("[]") and
\* as a file without per-webhook keys looks.
LegacyFiles == {FileCorrupt} \cup {FileList(l) : l \in SmallSets}
LegacyInit ==
    /\ sent_articles \in LegacyFiles
    /\ store0 = sent_articles
    /\ flock = "none"
    /\ rpc = [p \in Procs |-> "idle"]
    /\ webhook_url = [p \in Procs |-> "A"]
    /\ article_ids_to_check = [p \in Procs |-> {}]
    /\ all_webhooks_memory = [p \in Procs |-> EmptyMap]
    /\ new_article_ids = [p \in Procs |-> {}]
    /\ calls = [p \in Procs |-> <<>>]
    /\ before = [p \in Procs |-> {}]
    /\ applied = <<>>
    /\ served = Universe
    /\ users = NoUserFile
    /\ g_user = NoUser
    /\ SInit
SpecLegacy == LegacyInit /\ [][SeqNext]_vars

\* C15: a call on a file that does not parse, or that holds a list instead
\* of the mapping, returns every candidate as new and rewrites the file as
\* a mapping that holds the candidates.
C15_CorruptStore ==
    (/\ FirstReturned
     /\ store0.kind \in {"corrupt", "list"}
     /\ SeqCalls[1].ids # {}
     /\ Cardinality(SeqCalls[1].ids) <= PruneLimit) =>
        /\ SeqCalls[1].res = SeqCalls[1].ids
        /\ sent_articles.kind = "map"
        /\ Get(sent_articles.map, SeqCalls[1].url) = SeqCalls[1].ids

\* ------------------------------------------------------------------------
\* Properties of FeedScheduler.run
\* ------------------------------------------------------------------------
\* The due rule in terms of the persisted feed state: the feed is active and
\* it has no entry, or its last check is at least update_interval before
\* the time of the tick.
IsDue(feed, state, clock) ==
    /\ feed.active
    /\ \/ ~state[feed.id].seen
       \/ clock - state[feed.id].last_checked >= feed.update_interval
\* The index in FEEDS from which the scheduler step at hand goes on.
LoopStart == IF pc["sched"] = "idle" THEN 1 ELSE fidx + 1
LoopStep == pc["sched"] \in {"idle", "returned"} /\ pc'["sched"] # pc["sched"]

\* C16: the scheduler checks a feed exactly when it is due: every feed the
\* loop starts to check is due by the feed state persisted at that moment,
\* and every feed the loop passes over is not.
C16_DueRule ==
    [][LoopStep =>
          /\ pc'["sched"] = "check" =>
                /\ IsDue(config[fidx'], feed_state_file, tick_now')
                /\ \A k \in LoopStart..(fidx' - 1) :
                       ~IsDue(config[k], feed_state_file, tick_now')
          /\ pc'["sched"] = "idle" =>
                \A k \in LoopStart..Len(config) :
                    ~IsDue(config[k], feed_state_file, tick_now')]_vars

\* SpecPaused: the scheduler and the dashboard with two feeds in
\* config.json, the second one paused (toggle_pause_feed).
PausedFeeds ==
    << [id |-> "f1", webhooks |-> <<"A">>, update_interval |-> 60,
        active |-> TRUE],
       [id |-> "f2", webhooks |-> <<"B">>, update_interval |-> 60,
        active |-> FALSE] >>
PausedInit ==
    /\ sent_articles = FileList({})
    /\ store0 = sent_articles
    /\ flock = "none"
    /\ rpc = [p \in Procs |-> "idle"]
    /\ webhook_url = [p \in Procs |-> "A"]
    /\ article_ids_to_check = [p \in Procs |-> {}]
    /\ all_webhooks_memory = [p \in Procs |-> EmptyMap]
    /\ new_article_ids = [p \in Procs |-> {}]
    /\ calls = [p \in Procs |-> <<>>]
    /\ before = [p \in Procs |-> {}]
    /\ applied = <<>>
    /\ served = Universe
    /\ users = NoUserFile
    /\ g_user = NoUser
    /\ now = Epoch
    /\ dst_shift = 0
    /\ config = PausedFeeds
    /\ feed_state_file = [f \in FeedIds |-> NoState]
    /\ pc = [p \in Procs |-> "idle"]
    /\ feed_state = [p \in Procs |-> [f \in FeedIds |-> NoState]]
    /\ tick_now = Epoch
    /\ wake = Epoch
    /\ fidx = 1
    /\ feed_config = [p \in Procs |-> NoFeed]
    /\ status_code = [p \in Procs |-> None]
    /\ last_post_status = [p \in Procs |-> ""]
    /\ article_id_map = [p \in Procs |-> {}]
    /\ is_initial_check = [p \in Procs |-> FALSE]
    /\ widx = [p \in Procs |-> 1]
    /\ posted = [p \in Procs |-> <<>>]
    /\ seeded = [p \in Procs |-> {}]
    /\ dispatched = [w \in Webhooks |-> [k \in Keys |-> 0]]
    /\ failed = {}
    /\ nforce = 0
    /\ memory_at_check = EmptyMap
    /\ yielded = FALSE
SpecPaused == PausedInit /\ [][Next]_vars

InactiveFeeds == {i \in DOMAIN config : ~config[i].active}
SchedulerSaves == pc["sched"] = "returned" /\ pc'["sched"] # "returned"

\* C17: the scheduler never checks a feed whose active flag is false (no
\* fetch, no registration, no post), and no step of a tick changes the
\* entry of such a feed in the persisted feed state.
C17_InactiveSkipped ==
    [][/\ \A i \in InactiveFeeds :
              ~(pc'["sched"] = "check" /\ feed_config'["sched"] = config[i])
       /\ SchedulerSaves =>
              \A i \in InactiveFeeds :
                  feed_state_file'[config[i].id] =
                      feed_state_file[config[i].id]]_vars

\* ------------------------------------------------------------------------
\* Properties of force_check_feed
\* ------------------------------------------------------------------------
ForceSaves == pc["web"] = "returned" /\ pc'["web"] = "idle"

\* C18: a force check runs the check whatever the feed's last_checked is
\* and then writes, into the feed's entry of the persisted feed state, the
\* status code the check returned, the time of the write and, when the
\* check returned one, the post status with that time; without a post
\* status the earlier last_post is kept.
C18_ForceCheckRecords ==
    [][ForceSaves =>
          LET fid == feed_config["web"].id
              entry == feed_state_file'[fid]
          IN  /\ entry.seen
              /\ entry.status_code = status_code["web"]
              /\ entry.last_checked = now
              /\ IF last_post_status["web"] # ""
                 THEN /\ entry.last_post = last_post_status["web"]
                      /\ entry.last_post_timestamp = now
                 ELSE /\ entry.last_post = feed_state_file[fid].last_post
                      /\ entry.last_post_timestamp =
                             feed_state_file[fid].last_post_timestamp]_vars
\* Two force checks at the same clock reading, update_interval being 60 s:
\* the second one ran, posted and was recorded.
C18_Witness ==
    /\ nforce = 2
    /\ pc["web"] = "idle"
    /\ now = Epoch
    /\ feed_state_file["f1"].last_checked = Epoch
    /\ feed_state_file["f1"].status_code = 200
    /\ feed_state_file["f1"].last_post = "Rate Limited"
    /\ \E w \in Webhooks, k \in Keys : dispatched[w][k] = 1

\* SpecSched: the scheduler alone (the dashboard is not in use), two feeds
\* in config.json.
SchedNext ==
    \/ check_single_feed("sched")
    \/ run_tick
    \/ run_save
    \/ Advance
SpecSched == FeedsInit /\ [][SchedNext]_vars

\* C19: a check whose fetch fails (no entries; status other than 200, or
\* 500 for a result without status) returns that status code and no post
\* status, calls neither the dedup function nor send_to_webhook, and the
\* scheduler writes the status code into the feed's entry and goes on with
\* the feeds after it.
FetchFailed(p) ==
    /\ LeavesFetch(p)
    /\ status_code'[p] # 200
check_raise ==
    /\ pc["sched"] = "check"
    /\ pc' = [pc EXCEPT !["sched"] = "raised"]
    /\ UNCHANGED <<rvars, dvars, now, dst_shift, files, feed_state, tick_now,
                   wake, fidx, cvars, dispatched, failed, nforce,
                   memory_at_check, yielded>>

\* A handler that records the failure: status 500 and the time of the tick
\* are written for the feed whose check raised.
run_except_recorded ==
    /\ pc["sched"] = "raised"
    /\ LET updated == UpdateFeedState(feed_state["sched"],
                          feed_config["sched"].id, 500, "", tick_now)
       IN  /\ feed_state_file' = updated
           /\ LoopFrom(config, fidx + 1, updated, tick_now)
    /\ ClearLocals("sched")
    /\ UNCHANGED <<sent_articles, flock, rpc, all_webhooks_memory,
                   new_article_ids, dvars, now, dst_shift, config, tick_now,
                   dispatched, failed, nforce, memory_at_check, yielded>>

\* scheduler.py:286-291: except Exception: the error is printed, nothing is
\* written to feed_state.json, and after time.sleep(2) the loop goes on with
\* the next feed, or sleeps for self.interval after the last one.
run_except ==
    /\ pc["sched"] = "raised"
    /\ LoopFrom(config, fidx + 1, feed_state["sched"], tick_now)
    /\ ClearLocals("sched")
    /\ UNCHANGED <<sent_articles, flock, rpc, all_webhooks_memory,
                   new_article_ids, dvars, now, dst_shift, files, tick_now,
                   dispatched, failed, nforce, memory_at_check, yielded>>

\* SpecSurvive: the scheduler alone, two feeds, checks that may raise.  The
\* steps of the loop that return by themselves are taken sooner or later:
\* the loop is sequential code; requests.post has timeout=10
\* (scheduler.py:119) and nobody else holds the lock of sent_articles.yaml.
\* feedparser.parse (scheduler.py:138) is called without a timeout and no
\* default socket timeout is set, so the fetch of check_fetch, and the
\* exception check_raise stands for, are steps that need not happen: the
\* server may keep the connection open and never answer.
SurviveNext ==
    \/ check_single_feed("sched")
    \/ check_raise
    \/ run_tick
    \/ run_save
    \/ run_except
    \/ Advance
LoopFairness ==
    /\ WF_vars(run_tick)
    /\ WF_vars(check_filter("sched") \/ check_filtered("sched"))
    /\ WF_vars(run_save)
    /\ WF_vars(run_except)
SpecSurvive == FeedsInit /\ [][SurviveNext]_vars /\ LoopFairness

\* The scheduler is in time.sleep(self.interval), scheduler.py:291.
Sleeping ==
    /\ pc["sched"] = "idle"
    /\ now < wake

\* C20: an exception raised by the check of a feed is caught: the loop goes
\* on with the feeds after it in the tick, or ends the tick and sleeps for
\* the interval; and in every run the scheduler keeps starting ticks: from
\* any state where it is not asleep (the sleep is over, or it is in a
\* tick) it starts the tick, goes through it and reaches the next sleep.
C20_SchedulerSurvival ==
    /\ [][pc["sched"] = "raised" /\ pc'["sched"] # "raised" =>
            \/ pc'["sched"] = "check" /\ fidx' > fidx
            \/ /\ pc'["sched"] = "idle"
               /\ wake' = now + Interval
               /\ \A k \in (fidx + 1)..Len(config) :
                      Skipped(config[k], feed_state["sched"], tick_now)]_vars
    /\ ~Sleeping ~> Sleeping


\* The scheduler is in the check of the feed at index i of FEEDS, or in what
\* follows it up to the next feed of the loop.
InCheckOf(i) ==
    /\ pc["sched"] \in {"check", "filter", "returned", "raised"}
    /\ fidx = i

\* C21: every suspension point of a check is bounded by a timeout, so a
\* feed or webhook that never answers cannot keep the other due feeds from
\* being checked: whenever the scheduler is in the check of a feed and a
\* later feed of FEEDS is due in this tick, the check of that later feed
\* eventually starts.
C21_BoundedBlocking ==
    \A i, k \in 1..Len(TwoFeeds) :
        (/\ InCheckOf(i)
         /\ i < k
         /\ ~Skipped(config[k], feed_state["sched"], tick_now))
            ~> (pc["sched"] = "check" /\ fidx = k)


\* The state after both processes have started on an empty
\* sent_articles.yaml ([] from initialize_files) and an empty
\* feed_state.json, with `feeds` in config.json, servers that have
\* `entries`, and a host without DST.
StateInit(feeds, entries, state) ==
    /\ sent_articles = FileList({})
    /\ store0 = sent_articles
    /\ flock = "none"
    /\ rpc = [p \in Procs |-> "idle"]
    /\ webhook_url = [p \in Procs |-> "A"]
    /\ article_ids_to_check = [p \in Procs |-> {}]
    /\ all_webhooks_memory = [p \in Procs |-> EmptyMap]
    /\ new_article_ids = [p \in Procs |-> {}]
    /\ calls = [p \in Procs |-> <<>>]
    /\ before = [p \in Procs |-> {}]
    /\ applied = <<>>
    /\ served = entries
    /\ users = NoUserFile
    /\ g_user = NoUser
    /\ now = Epoch
    /\ dst_shift = 0
    /\ config = feeds
    /\ feed_state_file = state
    /\ pc = [p \in Procs |-> "idle"]
    /\ feed_state = [p \in Procs |-> [f \in FeedIds |-> NoState]]
    /\ tick_now = Epoch
    /\ wake = Epoch
    /\ fidx = 1
    /\ feed_config = [p \in Procs |-> NoFeed]
    /\ status_code = [p \in Procs |-> None]
    /\ last_post_status = [p \in Procs |-> ""]
    /\ article_id_map = [p \in Procs |-> {}]
    /\ is_initial_check = [p \in Procs |-> FALSE]
    /\ widx = [p \in Procs |-> 1]
    /\ posted = [p \in Procs |-> <<>>]
    /\ seeded = [p \in Procs |-> {}]
    /\ dispatched = [w \in Webhooks |-> [k \in Keys |-> 0]]
    /\ failed = {}
    /\ nforce = 0
    /\ memory_at_check = EmptyMap
    /\ yielded = FALSE
ConfigInit(feeds, entries) ==
    StateInit(feeds, entries, [f \in FeedIds |-> NoState])

\* SpecLost: the scheduler and the dashboard with two feeds in config.json:
\* f1 is active and has no webhook yet, f2 is paused and posts to B.
LostFeeds ==
    << [id |-> "f1", webhooks |-> <<>>, update_interval |-> 60,
        active |-> TRUE],
       [id |-> "f2", webhooks |-> <<"B">>, update_interval |-> 60,
        active |-> FALSE] >>
LostInit == ConfigInit(LostFeeds, Universe)
SpecLost == LostInit /\ [][Next]_vars

\* C22: feed_state.json is read and later written whole, without a lock, by
\* the scheduler and by the force check: what a save leaves in the file for
\* every feed other than the one checked is the entry of the writer's own
\* snapshot, whatever the other one has written since (the last writer
\* wins), and the entry of the feed checked is the writer's result.
C22_LastWriterWins ==
    [][/\ SchedulerSaves =>
            /\ \A f \in FeedIds \ {feed_config["sched"].id} :
                   feed_state_file'[f] = feed_state["sched"][f]
            /\ feed_state_file'[feed_config["sched"].id].status_code
                   = status_code["sched"]
            /\ feed_state_file'[feed_config["sched"].id].last_checked
                   = tick_now
       /\ ForceSaves =>
            /\ \A f \in FeedIds \ {feed_config["web"].id} :
                   feed_state_file'[f] = feed_state["web"][f]
            /\ feed_state_file'[feed_config["web"].id].status_code
                   = status_code["web"]
            /\ feed_state_file'[feed_config["web"].id].last_checked = now]_vars
\* A lost update: the one force check of the run was of the paused feed f2
\* (only f2 posts to webhook B), it is over and has saved the entry of f2;
\* the scheduler, which loaded feed_state.json before that, has saved the
\* entry of f1 since, and the file has no entry for f2 any more.
C22_Witness ==
    /\ nforce = 1
    /\ pc["web"] = "idle"
    /\ SentSet(sent_articles, "B") # {}
    /\ feed_state_file["f1"].seen
    /\ ~feed_state_file["f2"].seen


\* The status of the last post of the check of process p.
LastStatus(p) == posted[p][Len(posted[p])][3]

\* C23: when a check has posted at least once, the post status it returns
\* is the status string of the last post it made, over all the webhooks of
\* the feed, and that string is what the save writes into last_post of the
\* feed's entry; a failure of an earlier post of the check leaves no trace.
C23_RecordedOutcome ==
    [][/\ \A p \in Procs :
            (pc[p] = "filter" /\ pc'[p] = "returned" /\ posted'[p] # <<>>) =>
                last_post_status'[p] = posted'[p][Len(posted'[p])][3]
       /\ (ForceSaves /\ posted["web"] # <<>>) =>
            /\ feed_state_file'[feed_config["web"].id].last_post
                   = LastStatus("web")
            /\ feed_state_file'[feed_config["web"].id].last_post_timestamp
                   = now
       /\ (SchedulerSaves /\ posted["sched"] # <<>>) =>
            /\ feed_state_file'[feed_config["sched"].id].last_post
                   = LastStatus("sched")
            /\ feed_state_file'[feed_config["sched"].id].last_post_timestamp
                   = tick_now]_vars
\* The second force check of the run (the first one posts nothing) is over:
\* its last post to A was rate limited, its last post, to B, went through,
\* and last_post of the feed says "Success".
C23_Witness ==
    /\ nforce = 2
    /\ pc["web"] = "idle"
    /\ \E k \in Keys : <<"A", k>> \in failed
    /\ \A k \in Keys : <<"B", k>> \notin failed
    /\ \E k \in Keys : dispatched["B"][k] > 0
    /\ feed_state_file["f1"].last_post = "Success"


\* The fetch of process p returns for a feed that is in feed_state and has
\* no webhook.
SeededNoWebhooks(p) ==
    /\ LeavesFetch(p)
    /\ feed_state[p][feed_config[p].id].seen
    /\ feed_config[p].webhooks = <<>>
\* What every such check does: it returns a status code at once, without a
\* call of the dedup function and without a post.
NoDedupActivity(p) ==
    /\ pc'[p] = "returned"
    /\ status_code'[p] # None
    /\ rpc'[p] = "idle"
    /\ sent_articles' = sent_articles
    /\ seeded' = seeded
    /\ posted' = posted
    /\ dispatched' = dispatched

PostCodes == {ConnectionError, 200, 201, 204, 400, 404, 429, 500}
MaxSends == 2
\* scheduler.py:118-130: one requests.post and no loop: the call uses the
\* answer the server gives to the first request, whatever it would answer
\* to a second one, and returns its status string.
Deliver(answers) ==
    [returned |-> send_to_webhook(answers[1]), requests |-> 1]
send_call ==
    /\ Len(applied) < MaxSends
    /\ \E answers \in [1..2 -> PostCodes] :
          applied' = Append(applied,
                        [answers |-> answers,
                         returned |-> Deliver(answers).returned,
                         requests |-> Deliver(answers).requests])
    /\ UNCHANGED <<rvars, calls, before, store0, served, users, g_user,
                   svars>>
SpecSend == ConfigInit(InitialFeeds, Universe) /\ [][send_call]_vars

\* C25: send_to_webhook returns "Success" for the response status 200 or
\* 204, "Rate Limited" for 429, "Error: <code>" for every other status
\* outside 200..299, and "Failed to Connect" when the request fails; every
\* call returns one of these strings (it does not raise) after exactly one
\* request.
C25_DispatchOutcome ==
    \A i \in DOMAIN applied :
        LET code == applied[i].answers[1]
            status == applied[i].returned
        IN  /\ code \in {200, 204} => status = "Success"
            /\ code = 429 => status = "Rate Limited"
            /\ code = ConnectionError => status = "Failed to Connect"
            /\ (code # ConnectionError /\ code # 429 /\ code \notin 200..299)
                   => status = "Error: " \o ToString(code)
            /\ status \in {"Success", "Rate Limited", "Failed to Connect"}
                              \cup {"Error: " \o ToString(c) : c \in PostCodes}
            /\ applied[i].requests = 1
\* A rate-limited call (the server would have accepted a second request)
\* followed by a call whose request could not be made.
C25_Witness ==
    /\ Len(applied) = 2
    /\ applied[1].answers = <<429, 204>>
    /\ applied[1].returned = "Rate Limited"
    /\ applied[2].answers[1] = ConnectionError
    /\ applied[2].returned = "Failed to Connect"


\* C26: the feed state is persisted feed by feed: the step of the scheduler
\* that follows the return of a check writes the feed's status_code and
\* last_checked (and last_post when the check returned an outcome) to
\* feed_state.json, and only then does the check of the next feed start, so
\* that during the check of a later feed of the tick the file already has
\* the result of the feed just checked.
C26_PersistedPerFeed ==
    [][SchedulerSaves =>
          LET fid == feed_config["sched"].id
              entry == feed_state_file'[fid]
          IN  /\ entry.seen
              /\ entry.status_code = status_code["sched"]
              /\ entry.last_checked = tick_now
              /\ last_post_status["sched"] # "" =>
                    /\ entry.last_post = last_post_status["sched"]
                    /\ entry.last_post_timestamp = tick_now
              /\ pc'["sched"] \in {"check", "idle"}
              /\ pc'["sched"] = "check" => fidx' > fidx]_vars
\* The scheduler is in the check of f2 in the tick that began at Epoch;
\* feed_state.json already has what the check of f1 returned in this tick,
\* and nothing yet for f2.
C26_Witness ==
    /\ pc["sched"] = "check"
    /\ fidx = 2
    /\ tick_now = Epoch
    /\ feed_state_file["f1"].last_checked = tick_now
    /\ feed_state_file["f1"].status_code = 200
    /\ feed_state_file["f1"].last_post = "Initial check (seeded)"
    /\ feed_state_file["f1"].last_post_timestamp = tick_now
    /\ ~feed_state_file["f2"].seen


\* SpecOrder: the scheduler alone; f1 posts to B and then to A, f2 to A.
OrderFeeds ==
    << [id |-> "f1", webhooks |-> <<"B", "A">>, update_interval |-> 60,
        active |-> TRUE],
       [id |-> "f2", webhooks |-> <<"A">>, update_interval |-> 60,
        active |-> TRUE] >>
SpecOrder == ConfigInit(OrderFeeds, Universe) /\ [][SchedNext]_vars

\* Process p calls filter_and_update_sent_articles_for_webhook.
CallStarts(p) ==
    /\ rpc[p] # "open"
    /\ rpc'[p] = "open"
\* The webhooks of the feed in check that come before index j and have a
\* url.
EarlierWebhooks(p, j) ==
    {feed_config[p].webhooks[k] : k \in {i \in 1..(j - 1) :
                                          feed_config[p].webhooks[i] # ""}}

\* C27: inside a check the webhooks of the feed are processed in the order
\* of the configuration: a call of the dedup function is for the first
\* webhook with a url after the one processed before, every post made so
\* far in the check went to an earlier webhook, and the posts that follow a
\* call go to the webhook of the call; inside a tick the scheduler checks
\* the feeds in the order of FEEDS, passing over only the feeds that are
\* not due.
C27_ProcessingOrder ==
    [][/\ \A p \in Procs :
            /\ CallStarts(p) =>
                 LET webhooks == feed_config[p].webhooks
                     first == IF pc[p] = "check" THEN 1 ELSE widx[p] + 1
                 IN  /\ widx'[p] \in first..Len(webhooks)
                     /\ webhook_url'[p] = webhooks[widx'[p]]
                     /\ webhook_url'[p] # ""
                     /\ \A k \in first..(widx'[p] - 1) : webhooks[k] = ""
                     /\ \A i \in DOMAIN posted'[p] :
                            posted'[p][i][1] \in EarlierWebhooks(p, widx'[p])
            /\ (pc[p] = "filter" /\ posted'[p] # posted[p]) =>
                 /\ Len(posted'[p]) > Len(posted[p])
                 /\ \A i \in DOMAIN posted'[p] :
                        IF i <= Len(posted[p])
                        THEN posted'[p][i] = posted[p][i]
                        ELSE posted'[p][i][1] = feed_config[p].webhooks[widx[p]]
       /\ StartsCheck("sched") =>
            LET first == IF pc["sched"] = "idle" THEN 1 ELSE fidx + 1
            IN  /\ fidx' \in first..Len(config)
                /\ feed_config'["sched"] = config[fidx']
                /\ \A k \in first..(fidx' - 1) :
                       Skipped(config[k], feed_state'["sched"], tick_now')]_vars
\* In a check of f1 the scheduler has posted to B, has then called the
\* dedup function for A and posted to A; feed f2 has not been checked in
\* this tick yet.
C27_Witness ==
    /\ pc["sched"] = "returned"
    /\ fidx = 1
    /\ Len(posted["sched"]) >= 2
    /\ posted["sched"][1][1] = "B"
    /\ posted["sched"][Len(posted["sched"])][1] = "A"
    /\ feed_state_file["f2"].last_checked # tick_now


\* SpecStamp: the scheduler alone with the feeds of SpecSched, the servers
\* having: an entry without any time; an entry with the same id published
\* two days ago and updated now; an entry whose published time cannot be
\* converted, updated now; an entry with an updated time only.
StampUniverse ==
    { Entry(1, None, None, None),
      Entry(1, 1, Epoch - 2 * TWENTY_FOUR_HOURS, Epoch),
      Entry(2, None, Unconvertible, Epoch),
      Entry(3, None, None, Epoch) }
SpecStamp == ConfigInit(TwoFeeds, StampUniverse) /\ [][SchedNext]_vars

\* The time the filter is to use, read off the fields of the entry.
EffectiveTime(e) ==
    IF e.published_parsed # None THEN e.published_parsed ELSE e.updated_parsed
\* The entries the filter is to drop whatever the clock says, and their ids.
Untimed(entries) ==
    {e \in entries : EffectiveTime(e) \in {None, Unconvertible}}
StampDroppedIds == {1, 2}

\* C28: the recency filter goes by the published time of an entry and by
\* its updated time when it has no published time; an entry with neither,
\* or whose time cannot be converted, is dropped: it is not among the
\* articles of the check, its id is never registered for a webhook nor
\* posted, and the check returns as usual.  (An article of a check was
\* within the day when it was fetched; the clock may have moved since.)
C28_EffectiveTimestamp ==
    /\ [](\A p \in Procs :
            /\ article_id_map[p] \cap Untimed(served) = {}
            /\ \A e \in article_id_map[p] :
                   EffectiveTime(e) + dst_shift >= now - TWENTY_FOUR_HOURS
                       - MaxTicks * Interval
            /\ article_ids_to_check[p] \cap StampDroppedIds = {})
    /\ [](\A w \in Webhooks :
            /\ SentSet(sent_articles, w) \cap StampDroppedIds = {}
            /\ \A k \in StampDroppedIds : dispatched[w][k] = 0)
    /\ [][\A p \in Procs :
            LeavesFetch(p) =>
               /\ pc'[p] \in {"filter", "returned"}
               /\ status_code'[p] \in {200, 500}]_vars
\* The entry that has an updated time only has been posted to A, after a
\* check (the seeding one or this one) that was served an entry without a
\* usable time.
C28_Witness ==
    /\ dispatched["A"][3] = 1
    /\ SentSet(sent_articles, "A") = {3}
    /\ pc["sched"] = "returned"
    /\ posted["sched"] = <<<<"A", Entry(3, None, None, Epoch), "Success">>>>


\* SpecIdent: the scheduler alone with the feeds of SpecSched, the servers
\* having three recent entries: one with id 1 and link 2, one with link 3
\* and no id, one with neither.
IdentUniverse ==
    { Entry(1, 2, Epoch, None),
      Entry(None, 3, Epoch, None),
      Entry(None, None, Epoch, None) }
SpecIdent == ConfigInit(TwoFeeds, IdentUniverse) /\ [][SchedNext]_vars

\* The entries that can be tracked and the key of each, read off the
\* fields.
Trackable(entries) == {e \in entries : e.id # None \/ e.link # None}
KeyOf(e) == IF e.id # None THEN e.id ELSE e.link
TrackableKeys == {KeyOf(e) : e \in Trackable(served)}

\* C29: the dedup key of an article is its id when it has one and its link
\* otherwise; a recent entry with neither is skipped: it is not among the
\* articles of the check, is never passed to the dedup function and never
\* posted, so the only ids ever registered or posted are the ids, and for
\* the entries without id the links, of the entries served.
C29_ArticleIdentity ==
    /\ [](\A p \in Procs :
            /\ article_id_map[p] \subseteq Trackable(served)
            /\ article_ids_to_check[p] \subseteq TrackableKeys
            /\ pc[p] = "filter" =>
                   article_ids_to_check[p] = {KeyOf(e) : e \in article_id_map[p]}
            /\ \A i \in DOMAIN posted[p] :
                   /\ posted[p][i][2] \in Trackable(served)
                   /\ KeyOf(posted[p][i][2]) \in TrackableKeys)
    /\ [](\A w \in Webhooks :
            /\ SentSet(sent_articles, w) \subseteq TrackableKeys
            /\ \A k \in Keys \ TrackableKeys : dispatched[w][k] = 0)
\* A check that was served all three entries has posted the entry with id 1
\* and the entry with link 3, and nothing else: the ids registered for A are
\* 1 and 3.
C29_Witness ==
    /\ pc["sched"] = "returned"
    /\ Len(posted["sched"]) = 2
    /\ dispatched["A"][1] = 1
    /\ dispatched["A"][3] = 1
    /\ dispatched["A"][2] = 0
    /\ SentSet(sent_articles, "A") = {1, 3}


\* ------------------------------------------------------------------------
\* delete_feed (main_web.py)
\* ------------------------------------------------------------------------
\* main_web.py:1633-1642: load_config, the feed with the id is taken out of
\* FEEDS, save_config.  feed_state.json and sent_articles.yaml are not
\* opened.  (An id that is not in FEEDS changes nothing.)
WithoutFeed(feeds, fid) == SelectSeq(feeds, LAMBDA f : f.id # fid)
delete_feed ==
    /\ pc["web"] = "idle"
    /\ \E i \in DOMAIN config : config' = WithoutFeed(config, config[i].id)
    /\ UNCHANGED <<rvars, dvars, now, dst_shift, feed_state_file, pc,
                   feed_state, tick_now, wake, fidx, cvars, dispatched,
                   failed, nforce, memory_at_check, yielded>>

\* SpecDelete: the dashboard alone, one request at a time, two feeds in
\* config.json: force checks and deletions.
DeleteNext ==
    \/ check_single_feed("web")
    \/ force_check_load(MaxForce)
    \/ force_check_save
    \/ delete_feed
    \/ Advance
SpecDelete == ConfigInit(TwoFeeds, Universe) /\ [][DeleteNext]_vars

\* The ids of the feeds in FEEDS.
ConfiguredIds(feeds) == {feeds[i].id : i \in DOMAIN feeds}

\* C30: deleting a feed drops its entry of the persisted feed state: after
\* delete_feed, feed_state.json has no record for the id deleted.
C30_DeleteDropsState ==
    [][\A f \in FeedIds :
          (f \in ConfiguredIds(config) /\ f \notin ConfiguredIds(config')) =>
              ~feed_state_file'[f].seen]_vars


\* ------------------------------------------------------------------------
\* The description of an embed (scheduler.py:213-218)
\* ------------------------------------------------------------------------
\* A text is a sequence of characters; a character is a number: the letters
\* of a summary are 1, 2, 3, ... in the order of the text, and the
\* characters that matter to the code have numbers of their own.
LT == 1001
GT == 1002
SP == 1003
DOT == 1004
SLASH == 1005
LetterB == 1006
Text(n) == [i \in 1..n |-> i]

\* re.sub('<[^<]+?>', '', summary): at a "<", the shortest run of one or
\* more characters other than "<" that is followed by ">" is deleted
\* together with the two; a "<" without such a run stays.
TagEnd(s, i) ==
    IF \E j \in (i + 2)..Len(s) :
           s[j] = GT /\ \A k \in (i + 1)..(j - 1) : s[k] # LT
    THEN CHOOSE j \in (i + 2)..Len(s) :
             /\ s[j] = GT
             /\ \A k \in (i + 1)..(j - 1) : s[k] # LT /\ (k >= i + 2 => s[k] # GT)
    ELSE 0
\* The first "<" at or after i that begins such a run, 0 when there is none.
NextTag(s, i) ==
    IF \E p \in i..Len(s) : s[p] = LT /\ TagEnd(s, p) # 0
    THEN CHOOSE p \in i..Len(s) :
             /\ s[p] = LT /\ TagEnd(s, p) # 0
             /\ \A q \in i..(p - 1) : ~(s[q] = LT /\ TagEnd(s, q) # 0)
    ELSE 0
RECURSIVE StripTagsFrom(_, _)
StripTagsFrom(s, i) ==
    IF NextTag(s, i) = 0 THEN SubSeq(s, i, Len(s))
    ELSE SubSeq(s, i, NextTag(s, i) - 1)
             \o StripTagsFrom(s, TagEnd(s, NextTag(s, i)) + 1)
\* str.strip(): the text without the white space at its two ends
Strip(s) ==
    IF \A i \in DOMAIN s : s[i] = SP THEN <<>>
    ELSE LET first == CHOOSE i \in DOMAIN s :
                          s[i] # SP /\ \A k \in 1..(i - 1) : s[k] = SP
             last == CHOOSE i \in DOMAIN s :
                          s[i] # SP /\ \A k \in (i + 1)..Len(s) : s[k] = SP
         IN  SubSeq(s, first, last)
Ellipsis == <<DOT, DOT, DOT>>
\* The cut made after 250 characters, the marker coming on top.
TruncateAfterLimit(s) ==
    IF Len(s) > 250 THEN SubSeq(s, 1, 250) \o Ellipsis ELSE s
\* scheduler.py:217-218: if len(summary) > 250: summary[:247] + "..."
Truncate(s) ==
    IF Len(s) > 250 THEN SubSeq(s, 1, 247) \o Ellipsis ELSE s
\* scheduler.py:216-218
Description(summary) == Truncate(Strip(StripTagsFrom(summary, 1)))

\* The summaries the feeds have, each with the text a reader sees: plain
\* text, text inside <b>...</b>, text between blanks, around the limit.
SummaryLengths == {0, 1, 247, 248, 250, 251, 300}
Summaries ==
    {[raw |-> Text(n), visible |-> Text(n)] : n \in SummaryLengths}
    \cup {[raw |-> <<LT, LetterB, GT>> \o Text(n)
                       \o <<LT, SLASH, LetterB, GT>>,
           visible |-> Text(n)] : n \in SummaryLengths}
    \cup {[raw |-> <<SP>> \o Text(n) \o <<SP, SP>>,
           visible |-> Text(n)] : n \in SummaryLengths}
MaxDescribe == 2
describe_call ==
    /\ Len(applied) < MaxDescribe
    /\ \E s \in Summaries :
          applied' = Append(applied,
                        [summary |-> s.raw,
                         visible |-> s.visible,
                         description |-> Description(s.raw)])
    /\ UNCHANGED <<rvars, calls, before, store0, served, users, g_user,
                   svars>>
SpecDescribe == ConfigInit(InitialFeeds, Universe) /\ [][describe_call]_vars

\* C31: the description sent is the summary without its HTML when that has
\* at most 250 characters; a longer one is cut to 250 visible characters
\* followed by the ellipsis marker.
C31_DescriptionLength ==
    \A i \in DOMAIN applied :
        LET visible == applied[i].visible
            description == applied[i].description
        IN  IF Len(visible) <= 250
            THEN description = visible
            ELSE description = SubSeq(visible, 1, 250) \o Ellipsis

\* C31 as the code has it: a longer summary is cut to its first 247
\* characters followed by the three characters of the marker, which makes
\* 250 characters in all.
C31_DescriptionWithin250 ==
    \A i \in DOMAIN applied :
        LET visible == applied[i].visible
            description == applied[i].description
        IN  IF Len(visible) <= 250
            THEN description = visible
            ELSE /\ description = SubSeq(visible, 1, 247) \o Ellipsis
                 /\ Len(description) = 250
\* A summary of 251 characters inside a tag has been cut to 247 characters
\* and the marker; one of exactly 250 characters went out whole.
C31_Witness ==
    /\ Len(applied) = 2
    /\ Len(applied[1].visible) = 251
    /\ applied[1].summary[1] = LT
    /\ Len(applied[1].description) = 250
    /\ applied[1].description[247] = 247
    /\ applied[1].description[248] = DOT
    /\ applied[2].visible = Text(250)
    /\ applied[2].description = Text(250)


\* ------------------------------------------------------------------------
\* The frame of a call on the other webhooks
\* ------------------------------------------------------------------------
\* The step is one of the call in progress of p.
CallStep(p) == rpc[p] # "idle" /\ rpc'[p] # rpc[p]
\* The ids persisted for the webhooks other than w are the same after the
\* step.
OthersKept(w) ==
    \A o \in Webhooks \ {w} :
        SentSet(sent_articles', o) = SentSet(sent_articles, o)

\* C32: a step of a call for a webhook leaves the ids persisted for every
\* other webhook as they were, whatever the other caller does meanwhile and
\* also when the call creates the file.
C32_ReserveFrame ==
    [][\A p \in Procs : CallStep(p) => OthersKept(webhook_url[p])]_vars
\* The same of the calls made on a file that existed when the run began.
C32_ReserveFrameOnExistingStore ==
    [][\A p \in Procs :
          (store0.kind # "absent" /\ CallStep(p))
              => OthersKept(webhook_url[p])]_vars


\* ------------------------------------------------------------------------
\* The ids registered stay registered
\* ------------------------------------------------------------------------
\* The step neither reaches the cap for webhook w nor drops one of its ids.
KeepsRegistered(w) ==
    Cardinality(SentSet(sent_articles, w) \cup SentSet(sent_articles', w))
            <= PruneLimit
        => SentSet(sent_articles, w) \subseteq SentSet(sent_articles', w)

\* C33: while the ids of a webhook fit under the cap (PruneLimit here,
\* 10,000 in the program), no step of a scheduler check or of a force check
\* removes an id from the webhook's persisted list.
C33_MemoryMonotonic == [][\A w \in Webhooks : KeepsRegistered(w)]_vars
\* The same of the runs that begin with the file in place.
C33_MemoryMonotonicOnExistingStore ==
    [][store0.kind # "absent" => \A w \in Webhooks : KeepsRegistered(w)]_vars


\* ------------------------------------------------------------------------
\* edit_feed (main_web.py)
\* ------------------------------------------------------------------------
\* The forms posted: the webhook rows, the interval and the active box.
WebhookRows == {<<"A">>, <<"A", "B">>}
EditForms ==
    {[webhooks |-> ws, update_interval |-> Interval, active |-> a] :
        ws \in WebhookRows, a \in BOOLEAN}
\* main_web.py:1591-1627: load_config, the feed with the id gets the form's
\* webhooks, interval and active flag, save_config.  feed_state.json and
\* sent_articles.yaml are not opened.
edit_feed ==
    /\ pc["web"] = "idle"
    /\ \E i \in DOMAIN config, form \in EditForms :
          config' = [config EXCEPT ![i] =
                        [id |-> @.id,
                         webhooks |-> form.webhooks,
                         update_interval |-> form.update_interval,
                         active |-> form.active]]
    /\ UNCHANGED <<rvars, dvars, now, dst_shift, feed_state_file, pc,
                   feed_state, tick_now, wake, fidx, cvars, dispatched,
                   failed, nforce, memory_at_check, yielded>>

\* SpecEdit: the dashboard alone, one request at a time, on a feed added
\* with the single webhook A: force checks and edits of the feed.
OneWebhookFeed ==
    << [id |-> "f1", webhooks |-> <<"A">>, update_interval |-> 60,
        active |-> TRUE] >>
EditNext ==
    \/ check_single_feed("web")
    \/ force_check_load(MaxSeqForce)
    \/ force_check_save
    \/ edit_feed
    \/ Advance
SpecEdit == ConfigInit(OneWebhookFeed, Universe) /\ [][EditNext]_vars

\* The webhooks of the feed being checked that have no id persisted when
\* the check begins.
WebhooksOf(feed) == {feed.webhooks[i] : i \in DOMAIN feed.webhooks}
WithoutMemory(feed) ==
    {w \in WebhooksOf(feed) : memory_at_check[w] = {}}
\* The step posts to w an article that was posted to w before.
PostsAgain(w) ==
    \E k \in Keys :
        dispatched'[w][k] > dispatched[w][k] /\ dispatched[w][k] > 0

\* C34: seeding is per feed: the check of a feed that is recorded in the
\* feed state posts every recent article to each of its webhooks that has
\* no id persisted (a webhook added by edit_feed is not seeded silently),
\* and no webhook is posted an article it was posted before.
C34_SeedingPerFeed ==
    [][/\ (ForceSaves /\ ~is_initial_check["web"]) =>
              \A w \in WithoutMemory(feed_config["web"]) :
                  PostedTo("web", w) = AllRecentIds(article_id_map["web"])
       /\ \A w \in Webhooks : ~PostsAgain(w)]_vars
\* The first half alone: what the added webhook is posted.
C34_AddedWebhookGetsWindow ==
    [][(ForceSaves /\ ~is_initial_check["web"]) =>
          \A w \in WithoutMemory(feed_config["web"]) :
              PostedTo("web", w) = AllRecentIds(article_id_map["web"])]_vars


\* ------------------------------------------------------------------------
\* The last_post record of a check without outcome
\* ------------------------------------------------------------------------
\* The check of p has returned without a post status (failed fetch, no
\* recent article, nothing new for any webhook) and its result is saved.
SavesNoOutcome(p) ==
    /\ IF p = "sched" THEN SchedulerSaves ELSE ForceSaves
    /\ last_post_status[p] = ""
\* The time the save of p records.
SaveTime(p) == IF p = "sched" THEN tick_now ELSE now
\* The save writes the status code and the time, and the last_post record of
\* `state` for the feed.
RecordsWithLastPostOf(p, state) ==
    LET fid == feed_config[p].id
        entry == feed_state_file'[fid]
    IN  /\ entry.status_code = status_code[p]
        /\ entry.last_checked = SaveTime(p)
        /\ entry.last_post = state[fid].last_post
        /\ entry.last_post_timestamp = state[fid].last_post_timestamp

\* C35: a check that returns no post status, by the scheduler or on demand,
\* overwrites the feed's status_code and last_checked in feed_state.json and
\* leaves the last_post record the file had for the feed as it was.
C35_LastPostPreserved ==
    [][\A p \in Procs :
          SavesNoOutcome(p) => RecordsWithLastPostOf(p, feed_state_file)]_vars
\* The same of the record in the dictionary the writer loaded.
C35_LastPostOfLoadedState ==
    [][\A p \in Procs :
          SavesNoOutcome(p) => RecordsWithLastPostOf(p, feed_state[p])]_vars


\* ------------------------------------------------------------------------
\* The feed state after a check that raised
\* ------------------------------------------------------------------------
\* The clock readings a tick can start at.
TickTimes == {Epoch + n * Interval : n \in 0..MaxTicks}
\* The handler of the exception has run: the loop leaves the check.
ExceptHandled == pc["sched"] = "raised" /\ pc'["sched"] # "raised"
\* The tick starts.
TickStarts == pc["sched"] = "idle" /\ pc'["sched"] # "idle"

\* C36: when the check of a feed raises in the scheduler loop, nothing is
\* written to feed_state.json (the feed's status_code, last_checked and
\* last_post are what they were), the saves of the other feeds of the tick
\* leave the feed's entry as it is, the feed is due at every later tick, and
\* a tick passes over no feed that is due: the feed is checked again.
C36_ErrorLeavesState ==
    /\ [][ExceptHandled =>
             /\ feed_state_file' = feed_state_file
             /\ \A t \in TickTimes :
                   t >= tick_now =>
                       ~Skipped(feed_config["sched"], feed_state_file', t)]_vars
    /\ [][SchedulerSaves =>
             \A g \in FeedIds \ {feed_config["sched"].id} :
                 feed_state_file'[g] = feed_state_file[g]]_vars
    /\ [][TickStarts =>
             \A i \in DOMAIN config :
                 ~Skipped(config[i], feed_state_file, now) =>
                     /\ pc'["sched"] = "check"
                     /\ fidx' <= i]_vars
\* The check of f1 raised in the tick that began at Epoch: the tick is over
\* and f1 has no entry in the file; in the next tick f1 is checked again.
C36_Witness ==
    /\ wake = Epoch + Interval
    /\ tick_now = Epoch + Interval
    /\ pc["sched"] = "check"
    /\ feed_config["sched"].id = "f1"
    /\ ~feed_state_file["f1"].seen


\* ------------------------------------------------------------------------
\* The time between two scheduler checks of a feed
\* ------------------------------------------------------------------------
\* SpecSlow: the scheduler and the dashboard; f1 is polled every second
\* tick of the scheduler, f2 is paused.  The steps of the loop that need no
\* answer from a server are taken sooner or later.
SlowFeeds ==
    << [id |-> "f1", webhooks |-> <<>>, update_interval |-> 2 * Interval,
        active |-> TRUE],
       [id |-> "f2", webhooks |-> <<"B">>, update_interval |-> Interval,
        active |-> FALSE] >>
SlowFairness == WF_vars(run_tick) /\ WF_vars(run_save)
SpecSlow == ConfigInit(SlowFeeds, Universe) /\ [][Next]_vars /\ SlowFairness

\* The scheduler is in the check of feed f, in the tick that began at t.
SchedulerChecks(f, t) ==
    /\ pc["sched"] \in {"check", "filter", "returned"}
    /\ feed_config["sched"].id = f
    /\ tick_now = t
\* update_interval of feed f in config.json.
IntervalOf(f) ==
    LET i == CHOOSE j \in DOMAIN config : config[j].id = f
    IN  config[i].update_interval

\* C37: two checks of a feed that the scheduler starts belong to ticks whose
\* times are at least the feed's update_interval apart, force checks or not:
\* once the scheduler has checked feed f in the tick of time t, every later
\* check of f by the scheduler is in that tick or in a tick at least
\* update_interval after t.
C37_PollInterval ==
    \A f \in ConfiguredIds(SlowFeeds), t \in TickTimes :
        [](SchedulerChecks(f, t) =>
              [](\A u \in TickTimes :
                    SchedulerChecks(f, u) =>
                        (u = t \/ u - t >= IntervalOf(f))))


\* ------------------------------------------------------------------------
\* Force checks of a paused feed
\* ------------------------------------------------------------------------
\* SpecResume: the scheduler and the dashboard; f1 is active and has no
\* webhook; f2 was checked one interval ago, when its feed had no recent
\* article, and has been paused since (toggle_pause_feed).
PausedChecked ==
    [f \in FeedIds |->
        IF f = "f2"
        THEN [seen |-> TRUE, status_code |-> 200,
              last_checked |-> Epoch - Interval,
              last_post |-> "", last_post_timestamp |-> None]
        ELSE NoState]
SpecResume == StateInit(LostFeeds, Universe, PausedChecked) /\ [][Next]_vars


\* The dashboard is in the force check of a paused feed.
PausedForceCheck ==
    /\ pc["web"] # "idle"
    /\ feed_config["web"].id # ""
    /\ ~feed_config["web"].active
\* A force check of the feed at index i of FEEDS can begin.
CanForceCheck(i) ==
    ENABLED (/\ force_check_load(MaxForce)
             /\ feed_config'["web"] = config[i])
\* The call of the dedup function for the webhook has returned and the
\* check goes on.
CallReturns(p) == pc[p] = "filter" /\ rpc[p] = "done" /\ rpc'[p] # "done"
\* The entries of the ids the call returned are among the posts made to the
\* webhook of the call.
PostsTheNew(p) ==
    \A e \in article_id_map[p] :
        ArticleId(e) \in new_article_ids[p] =>
            \E i \in DOMAIN posted'[p] :
                /\ posted'[p][i][1] = webhook_url[p]
                /\ posted'[p][i][2] = e

\* C38: force_check_feed does not look at the active flag: a force check of
\* a paused feed can always begin; it fetches, passes every recent id to
\* the dedup function for the feed's webhooks, posts what the function
\* returns as new (after the seeding check) and writes the feed's entry of
\* feed_state.json, as the check of an active feed does; the scheduler never
\* checks the paused feed.
C38_ForceIgnoresActive ==
    /\ [](\A i \in InactiveFeeds :
            (pc["web"] = "idle" /\ nforce < MaxForce) => CanForceCheck(i))
    /\ [][/\ \A i \in InactiveFeeds :
                ~(pc'["sched"] = "check" /\ feed_config'["sched"] = config[i])
          /\ (PausedForceCheck /\ LeavesFetch("web")) =>
                /\ status_code'["web"] # None
                /\ (article_id_map'["web"] # {}) =>
                      /\ pc'["web"] = "filter"
                      /\ webhook_url'["web"] \in WebhooksOf(feed_config["web"])
                      /\ article_ids_to_check'["web"] =
                             AllRecentIds(article_id_map'["web"])
          /\ (PausedForceCheck /\ CallReturns("web")
                  /\ ~is_initial_check["web"]) => PostsTheNew("web")
          /\ (PausedForceCheck /\ ForceSaves) =>
                feed_state_file' =
                    UpdateFeedState(feed_state["web"], feed_config["web"].id,
                        status_code["web"], last_post_status["web"], now)]_vars
\* The paused feed f2 has been force-checked: an article was posted to
\* its webhook and is registered, its entry holds the outcome, and the
\* scheduler has checked f1 meanwhile.
C38_Witness ==
    /\ ~config[2].active
    /\ nforce = 1
    /\ pc["web"] = "idle"
    /\ \E k \in Keys :
          dispatched["B"][k] = 1 /\ k \in SentSet(sent_articles, "B")
    /\ feed_state_file["f2"].seen
    /\ feed_state_file["f2"].last_post \in {"Success", "Rate Limited"}
    /\ feed_state_file["f1"].seen


\* ------------------------------------------------------------------------
\* User administration (main_web.py)
\* ------------------------------------------------------------------------
\* The cap on the users of the runs checked.
MaxUsers == 3
UserIds == 1..MaxUsers
Usernames == {"u1", "u2"}
\* The password hashes.
Passwords == {1, 2}
Roles == {"owner", "super_admin", "admin"}
User(i, n, pw, r) == [id |-> i, username |-> n, password |-> pw, role |-> r]

IdsOf(list) == {list[i].id : i \in DOMAIN list}
\* next((i for i, u in enumerate(users) if u['id'] == user_id), -1), from 1;
\* 0 when there is none.
IndexOfId(list, uid) ==
    IF uid \in IdsOf(list)
    THEN CHOOSE i \in DOMAIN list :
             /\ list[i].id = uid
             /\ \A j \in 1..(i - 1) : list[j].id # uid
    ELSE 0
\* main_web.py:1483-1491: g.user of a request with a session: the first
\* user of the file with the session's id.  Without one the request is
\* redirected to the login page (main_web.py:1494-1499).
LoggedIn == {users.list[IndexOfId(users.list, uid)] : uid \in IdsOf(users.list)}
SaveUsers(list) == [exists |-> TRUE, list |-> list]

\* main_web.py:1503-1525: without USER_FILE, the first user is created with
\* role owner.
setup ==
    /\ ~users.exists
    /\ \E i \in UserIds, n \in Usernames, pw \in Passwords :
          users' = SaveUsers(<<User(i, n, pw, "owner")>>)
    /\ g_user' = NoUser
    /\ UNCHANGED <<rvars, calls, before, store0, applied, served, svars>>

\* request.form.get('role', 'admin'): whatever the request carries.
FormRoles == {"admin", "super_admin", "owner"}
\* main_web.py:1749-1751
GrantedRole(actor, role) ==
    IF role = "super_admin" /\ actor.role # "owner" THEN "admin" ELSE role
\* main_web.py:1739-1772
add_user ==
    /\ users.exists
    /\ \E actor \in LoggedIn, n \in Usernames, pw \in Passwords,
          role \in FormRoles, i \in UserIds \ IdsOf(users.list) :
          /\ g_user' = actor
          /\ IF \/ actor.role \notin {"owner", "super_admin"}
                \/ \E k \in DOMAIN users.list : users.list[k].username = n
             THEN users' = users
             ELSE /\ Len(users.list) < MaxUsers
                  /\ users' = SaveUsers(Append(users.list,
                                  User(i, n, pw, GrantedRole(actor, role))))
    /\ UNCHANGED <<rvars, calls, before, store0, applied, served, svars>>

\* The role of the first user with the id becomes `to` when it is `from`.
ChangeRole(list, uid, from, to) ==
    LET k == IndexOfId(list, uid)
    IN  IF k # 0 /\ list[k].role = from
        THEN [list EXCEPT ![k].role = to]
        ELSE list
\* main_web.py:1774-1788
promote_user ==
    /\ users.exists
    /\ \E actor \in LoggedIn, uid \in UserIds :
          /\ g_user' = actor
          /\ users' = IF actor.role # "owner" THEN users
                      ELSE SaveUsers(ChangeRole(users.list, uid,
                                                "admin", "super_admin"))
    /\ UNCHANGED <<rvars, calls, before, store0, applied, served, svars>>
\* main_web.py:1790-1804
demote_user ==
    /\ users.exists
    /\ \E actor \in LoggedIn, uid \in UserIds :
          /\ g_user' = actor
          /\ users' = IF actor.role # "owner" THEN users
                      ELSE SaveUsers(ChangeRole(users.list, uid,
                                                "super_admin", "admin"))
    /\ UNCHANGED <<rvars, calls, before, store0, applied, served, svars>>

\* main_web.py:1714-1737: the user's own password, when the current one is
\* given.
change_password ==
    /\ users.exists
    /\ \E actor \in LoggedIn, current \in Passwords, new \in Passwords :
          LET k == IndexOfId(users.list, actor.id)
          IN  /\ g_user' = actor
              /\ users' = IF users.list[k].password # current THEN users
                          ELSE SaveUsers([users.list EXCEPT ![k].password = new])
    /\ UNCHANGED <<rvars, calls, before, store0, applied, served, svars>>
\* main_web.py:1828-1853: the owner resets any password, a super admin the
\* password of an admin.
force_reset_password ==
    /\ users.exists
    /\ \E actor \in LoggedIn, uid \in UserIds, new \in Passwords :
          LET k == IndexOfId(users.list, uid)
          IN  /\ g_user' = actor
              /\ users' =
                   IF \/ actor.role \notin {"owner", "super_admin"}
                      \/ k = 0
                      \/ actor.role = "super_admin" /\ users.list[k].role # "admin"
                   THEN users
                   ELSE SaveUsers([users.list EXCEPT ![k].password = new])
    /\ UNCHANGED <<rvars, calls, before, store0, applied, served, svars>>

\* [u for u in users if u['id'] != user_id]
WithoutId(list, uid) == SelectSeq(list, LAMBDA u : u.id # uid)
\* main_web.py:1855-1894: the checks are made on the first user with the id.
MayDelete(actor, target) ==
    /\ target.id # actor.id
    /\ target.role # "owner"
    /\ \/ actor.role = "owner"
       \/ actor.role = "super_admin" /\ target.role = "admin"
delete_user ==
    /\ users.exists
    /\ \E actor \in LoggedIn, uid \in UserIds :
          LET k == IndexOfId(users.list, uid)
          IN  /\ g_user' = actor
              /\ users' = IF k # 0 /\ MayDelete(actor, users.list[k])
                          THEN SaveUsers(WithoutId(users.list, uid))
                          ELSE users
    /\ UNCHANGED <<rvars, calls, before, store0, applied, served, svars>>

\* The user lists of the backup files uploaded: up to MaxUsers entries with
\* the required keys; role "" stands for an entry without the key 'role'.
\* (A file that is no list of such entries raises and nothing is written.)
BackupIds == {1, 2}
BackupUsers ==
    {User(i, "u1", 1, r) : i \in BackupIds, r \in Roles \cup {""}}
RECURSIVE SeqsUpTo(_, _)
SeqsUpTo(S, n) ==
    IF n = 0 THEN {<<>>}
    ELSE LET shorter == SeqsUpTo(S, n - 1)
         IN  shorter \cup {Append(q, x) : q \in shorter, x \in S}
Backups == SeqsUpTo(BackupUsers, MaxUsers)
\* main_web.py:1976-1986: a missing role becomes admin; without any owner
\* the first user becomes owner.
WithRoles(list) ==
    [i \in DOMAIN list |->
        IF list[i].role = "" THEN [list[i] EXCEPT !.role = "admin"] ELSE list[i]]
EnsureOwner(list) ==
    IF \E i \in DOMAIN list : list[i].role = "owner" THEN list
    ELSE [list EXCEPT ![1].role = "owner"]
\* main_web.py:1947-2000: only the owner restores; users_data[0] of an empty
\* list raises IndexError, caught, and nothing is written.
upload_users_backup ==
    /\ users.exists
    /\ \E actor \in LoggedIn, data \in Backups :
          /\ g_user' = actor
          /\ users' = IF actor.role # "owner" \/ data = <<>> THEN users
                      ELSE SaveUsers(EnsureOwner(WithRoles(data)))
    /\ UNCHANGED <<rvars, calls, before, store0, applied, served, svars>>

\* SpecUsers: the dashboard's user administration, one request at a time,
\* from a fresh installation.
UsersNext ==
    \/ setup
    \/ add_user
    \/ promote_user
    \/ demote_user
    \/ change_password
    \/ force_reset_password
    \/ delete_user
    \/ upload_users_backup
SpecUsers == ConfigInit(InitialFeeds, Universe) /\ [][UsersNext]_vars

Owners(list) == {i \in DOMAIN list : list[i].role = "owner"}
\* C39: once setup has created the owner, USER_FILE holds at least one user
\* with role owner after every user-administration request, and delete_user
\* removes neither a user with role owner nor the user who makes the request.
C39_OwnerPreserved ==
    /\ [](users.exists => Owners(users.list) # {})
    /\ [][delete_user =>
             \A i \in DOMAIN users.list :
                 (users.list[i].role = "owner" \/ users.list[i] = g_user') =>
                     \E j \in DOMAIN users'.list :
                         users'.list[j] = users.list[i]]_vars
\* The same while no two users of the file have the same id.
UniqueIds(list) == Cardinality(IdsOf(list)) = Len(list)
C39_OwnerPreservedUniqueIds ==
    [][(users.exists /\ UniqueIds(users.list)) =>
          /\ Owners(users.list) # {} => Owners(users'.list) # {}
          /\ delete_user =>
                \A i \in DOMAIN users.list :
                    (users.list[i].role = "owner" \/ users.list[i] = g_user') =>
                        \E j \in DOMAIN users'.list :
                            users'.list[j] = users.list[i]]_vars


\* The ids of the users of `list` that hold role r.
Holding(list, r) == {list[i].id : i \in {k \in DOMAIN list : list[k].role = r}}
\* The request of the step is made by a user who is not the owner.
ByLesserRole == g_user'.role \in {"admin", "super_admin"}
\* No user holds role super_admin or owner after the step who did not hold
\* it before.
NoNewPrivileged ==
    \A r \in {"super_admin", "owner"} :
        Holding(users'.list, r) \subseteq Holding(users.list, r)

\* C40: a request made by an admin or a super admin leaves no user with role
\* super_admin or owner who did not have that role before (only the owner
\* creates a super admin or promotes an admin), and a request made by an
\* admin creates no user at all.
C40_EscalationOwnerOnly ==
    [][/\ ByLesserRole => NoNewPrivileged
       /\ g_user'.role = "admin" => Len(users'.list) <= Len(users.list)]_vars
\* The first half for the requests other than add_user.
C40_NoEscalationOutsideAddUser ==
    [][(ByLesserRole /\ ~add_user) => NoNewPrivileged]_vars

====
